---- MODULE Spec2Model ----
(***************************************************************************)
(* The loading runtime of schema_salad's Python code generator:            *)
(* python_codegen_support.py (the loader hierarchy, load_field,            *)
(* _document_load, _document_load_by_url) and the call interface of the    *)
(* fromDoc that python_codegen.py emits.                                   *)
(*                                                                         *)
(* A call of the runtime is one action.  The recursive descent of a call   *)
(* is a family of RECURSIVE operators that thread the mutable state the    *)
(* call touches (idx, imports, includes, the module-level line_numbers,    *)
(* the fetcher's log) and return it with the call's outcome: a value, a    *)
(* ValidationException, or another exception that no `except               *)
(* ValidationException` clause catches.                                    *)
(***************************************************************************)
EXTENDS Integers, Sequences, FiniteSets, TLC

VARIABLES
    idx,           \* LoadingOptions.idx, shared by every options object derived with copyfrom
    imports,       \* LoadingOptions.imports, shared the same way
    includes,      \* LoadingOptions.includes, shared the same way
    fetched,       \* log of the fetcher's fetch_text invocations
    line_numbers,  \* the module-level line_numbers
    nalloc,        \* number of objects (options, idx tuples) allocated so far
    trace,         \* loader invocations of the last call, in call order
    cache,         \* LoadingOptions.cache of each options object: the URLs found to exist
    vocabs,        \* the vocab / rvocab dictionaries: 0 is the module's, o > 0 the copy
                   \* the options object o made for itself
    ncalls,        \* number of calls made
    last,          \* the last call: its arguments, its outcome, the state before it
    prev           \* the call before the last

vars == <<idx, imports, includes, fetched, line_numbers, nalloc, trace, cache, vocabs, ncalls,
          last, prev>>

\* Number of calls a behaviour makes.
MaxCalls == 2

\* Number of nested load-by-URL frames the interpreter allows before RecursionError.
MaxDepth == 3

(***************************************************************************)
(* Documents: the generic tree yaml.load returns, and the values loaders   *)
(* return.  A Python str is either opaque text (s) or the text of a URL,   *)
(* kept split as urlsplit would split it (u).                              *)
(***************************************************************************)
None == [k |-> "null"]
PyBool(b) == [k |-> "bool", b |-> b]
PyInt(n) == [k |-> "int", n |-> n]
PyFloat(n) == [k |-> "float", f |-> n]
PyStr(s) == [k |-> "str", s |-> s]
U(d, f) == [doc |-> d, frg |-> f]
PyURL(u) == [k |-> "str", u |-> u]
PyList(items) == [k |-> "seq", items |-> items]
Ent(key, val) == [key |-> key, val |-> val]
\* ruamel's CommentedMap (what the YAML parser returns) and a plain dict
CommentedMap(ents) == [k |-> "map", cm |-> TRUE, ents |-> ents]
PyDict(ents) == [k |-> "map", cm |-> FALSE, ents |-> ents]

IsMap(d) == d.k = "map"
IsSeq(d) == d.k = "seq"
IsStr(d) == d.k = "str"
IsURLStr(d) == d.k = "str" /\ "u" \in DOMAIN d

HasKey(d, key) == \E i \in 1..Len(d.ents) : d.ents[i].key = key
Get(d, key) ==
    IF HasKey(d, key)
    THEN d.ents[CHOOSE i \in 1..Len(d.ents) : d.ents[i].key = key].val
    ELSE None

\* type(doc).__name__
ClassName(d) ==
    CASE d.k = "null" -> "NoneType"
      [] d.k = "map" -> IF d.cm THEN "CommentedMap" ELSE "dict"
      [] d.k = "seq" -> "list"
      [] OTHER -> d.k

\* isinstance(doc, tp) for the types the primitive loaders are built with;
\* bool is a subclass of int
IsInstance(d, tp) ==
    CASE tp = "int" -> d.k \in {"int", "bool"}
      [] tp = "NoneType" -> d.k = "null"
      [] OTHER -> d.k = tp

\* str(v), as the sequence of its pieces
UrlPieces(u) == IF u.frg = "" THEN <<u.doc>> ELSE <<u.doc, "#", u.frg>>
StrPieces(v) ==
    IF IsURLStr(v) THEN UrlPieces(v.u)
    ELSE IF IsStr(v) THEN <<v.s>>
    ELSE <<ClassName(v)>>

KeyS(s) == [s |-> s]
KeyI(i) == [i |-> i]

RECURSIVE PyEq(_, _)
\* a == b of two Python values: mappings compare by their items whatever their class and
\* key order, bool is an int
PyEq(a, b) ==
    IF a.k = "str" /\ b.k = "str"
    THEN (IF ~IsURLStr(a) THEN a.s ELSE IF a.u.frg = "" THEN a.u.doc
          ELSE a.u.doc \o "#" \o a.u.frg)
         = (IF ~IsURLStr(b) THEN b.s ELSE IF b.u.frg = "" THEN b.u.doc
            ELSE b.u.doc \o "#" \o b.u.frg)
    ELSE IF a.k = "map" /\ b.k = "map"
    THEN /\ \A i \in 1..Len(a.ents) : HasKey(b, a.ents[i].key)
         /\ \A i \in 1..Len(b.ents) :
              HasKey(a, b.ents[i].key) /\ PyEq(Get(a, b.ents[i].key), b.ents[i].val)
    ELSE IF a.k = "seq" /\ b.k = "seq"
    THEN Len(a.items) = Len(b.items) /\ \A i \in 1..Len(a.items) : PyEq(a.items[i], b.items[i])
    ELSE IF a.k \in {"int", "bool"} /\ b.k \in {"int", "bool"}
    THEN (IF a.k = "bool" THEN (IF a.b THEN 1 ELSE 0) ELSE a.n)
         = (IF b.k = "bool" THEN (IF b.b THEN 1 ELSE 0) ELSE b.n)
    ELSE a = b
\* x in r, for a list r
In(x, r) == \E j \in 1..Len(r) : PyEq(r[j], x)

\* d[key] = val on a mapping: an existing key keeps its place
SetItem(d, key, val) ==
    IF HasKey(d, key)
    THEN [d EXCEPT !.ents = [i \in 1..Len(d.ents) |->
                                IF d.ents[i].key = key THEN Ent(key, val) ELSE d.ents[i]]]
    ELSE [d EXCEPT !.ents = Append(@, Ent(key, val))]
\* d after d.pop(key)
Popped_key(d, key) ==
    LET keep == { i \in 1..Len(d.ents) : d.ents[i].key # key }
        RECURSIVE Sel(_)
        Sel(i) == IF i > Len(d.ents) THEN <<>>
                  ELSE (IF i \in keep THEN <<d.ents[i]>> ELSE <<>>) \o Sel(i + 1)
    IN  [d EXCEPT !.ents = Sel(1)]

(***************************************************************************)
(* Exceptions and outcomes.                                                *)
(***************************************************************************)
SourceLine(item, key) == [item |-> item, key |-> key]
ValidationException(msg, sl, children) == [msg |-> msg, sl |-> sl, children |-> children]
with_sourceline(e, sl) == [e EXCEPT !.sl = sl]

Ok(v) == [tag |-> "ok", val |-> v]
Raise(e) == [tag |-> "VE", exc |-> e]
Crash(what) == [tag |-> "crash", what |-> what]
Res(s, r) == [s |-> s, r |-> r]

(***************************************************************************)
(* Loaders.                                                                *)
(***************************************************************************)
_PrimitiveLoader(tp) == [t |-> "prim", tp |-> tp]
_AnyLoader == [t |-> "any"]
_ArrayLoader(items) == [t |-> "array", items |-> items]
_EnumLoader(symbols, name) == [t |-> "enum", symbols |-> symbols, name |-> name]
_RecordLoader(classtype) == [t |-> "record", classtype |-> classtype]
_ExpressionLoader == [t |-> "expr"]
_UnionLoader(alternates) == [t |-> "union", alternates |-> alternates]
_URILoader(inner, scoped_id, vocab_term, scoped_ref) ==
    [t |-> "uri", inner |-> inner, scoped_id |-> scoped_id, vocab_term |-> vocab_term,
     scoped_ref |-> scoped_ref]
_TypeDSLLoader(inner, refScope) == [t |-> "typedsl", inner |-> inner, refScope |-> refScope]
_IdMapLoader(inner, mapSubject, mapPredicate) ==
    [t |-> "idmap", inner |-> inner, mapSubject |-> mapSubject, mapPredicate |-> mapPredicate]
_SecondaryDSLLoader(inner) == [t |-> "secondarydsl", inner |-> inner]

\* str(tp) of a Python type
TypeRepr(tp) ==
    CASE tp = "int" -> "<class 'int'>"
      [] tp = "float" -> "<class 'float'>"
      [] tp = "bool" -> "<class 'bool'>"
      [] tp = "str" -> "<class 'str'>"
      [] tp = "NoneType" -> "<class 'NoneType'>"

RECURSIVE Repr(_)
RECURSIVE JoinRepr(_, _)
\* str(t): the loaders' __repr__, as the sequence of its pieces
Repr(t) ==
    CASE t.t = "prim" -> <<TypeRepr(t.tp)>>
      [] t.t = "array" -> <<"array<">> \o Repr(t.items) \o <<">">>
      [] t.t = "enum" -> <<t.name>>
      [] t.t = "record" -> <<t.classtype>>
      [] t.t = "union" -> JoinRepr(t.alternates, " | ")
      [] OTHER -> <<"<object>">>
JoinRepr(ts, sep) ==
    IF Len(ts) = 0 THEN <<>>
    ELSE IF Len(ts) = 1 THEN Repr(ts[1])
    ELSE Repr(ts[1]) \o <<sep>> \o JoinRepr(Tail(ts), sep)

\* The pairs (a, piece) of this model's strings with a a proper substring of piece
ProperSubstrings ==
    { <<"array", "array<">>, <<"int", "<class 'int'>">>, <<"class", "<class 'int'>">>,
      <<"str", "<class 'str'>">>, <<"class", "<class 'str'>">>,
      <<"Fo", "Foo">> }
\* a in "".join(pieces), for a name a that spans no two pieces
InStr(a, pieces) ==
    \E i \in 1..Len(pieces) : a = pieces[i] \/ <<a, pieces[i]>> \in ProperSubstrings

(***************************************************************************)
(* The fetcher and the documents behind it.                                *)
(***************************************************************************)
urldefrag(url) == <<U(url.doc, ""), url.frg>>
\* Fetcher.urljoin: an absolute reference stands, a fragment-only one keeps the base's document
urljoin(base, ref) == IF ref.doc = "" THEN U(base.doc, ref.frg) ELSE ref
\* A string read as a URL reference
AsURL(v) == IF IsURLStr(v) THEN v.u ELSE U(v.s, "")

\* yaml.load(fetch_text(doc_url)): the documents the fetcher serves
Parsed(d) ==
    CASE d = "a" -> PyList(<<PyInt(1), CommentedMap(<<Ent("$import", PyURL(U("b", "")))>>)>>)
      [] d = "b" -> PyList(<<PyInt(2), PyInt(3)>>)
      [] d = "c" -> CommentedMap(<<Ent("$base", PyURL(U("c", "main"))), Ent("x", PyInt(1))>>)
      [] d = "g" -> CommentedMap(<<Ent("$graph", PyList(<<PyInt(1), PyStr("z")>>))>>)
      [] d = "i" -> PyList(<<CommentedMap(<<Ent("$include", PyURL(U("t", "")))>>)>>)
      [] d = "cyc" -> PyList(<<CommentedMap(<<Ent("$import", PyURL(U("cyc", "")))>>)>>)
      [] d = "ca" -> PyList(<<PyInt(1), CommentedMap(<<Ent("$import", PyURL(U("cb", "")))>>)>>)
      [] d = "cb" -> PyList(<<CommentedMap(<<Ent("$import", PyURL(U("ca", "")))>>)>>)
      [] d = "n" -> PyInt(5)
      [] d = "p" -> CommentedMap(<<Ent("$namespaces",
                                       CommentedMap(<<Ent("p", PyStr("http://p/"))>>)),
                                   Ent("$graph", PyList(<<PyInt(1)>>))>>)
      [] d = "q" -> CommentedMap(<<Ent("$namespaces",
                                       CommentedMap(<<Ent("q", PyStr("http://q/")),
                                                      Ent("Any", PyStr("http://q/Any"))>>)),
                                   Ent("x", PyInt(1))>>)
      [] d = "pq" -> PyList(<<CommentedMap(<<Ent("$import", PyURL(U("p", "")))>>),
                              CommentedMap(<<Ent("$import", PyURL(U("q", "")))>>)>>)
      [] d = "ip" -> CommentedMap(<<Ent("$namespaces",
                                        CommentedMap(<<Ent("r", PyStr("http://r/"))>>)),
                                    Ent("$graph",
                                        PyList(<<CommentedMap(<<Ent("$import", PyURL(U("b", "")))>>),
                                                 CommentedMap(<<Ent("$import", PyURL(U("p", "")))>>),
                                                 PyInt(7)>>))>>)
      [] d = "am" -> PyList(<<PyInt(1), CommentedMap(<<Ent("$import", PyURL(U("m", "")))>>)>>)
      [] d = "um" ->
             PyList(<<PyList(<<CommentedMap(<<Ent("$import", PyURL(U("m", "")))>>)>>)>>)
      [] d = "im" ->
             PyList(<<PyList(<<CommentedMap(<<Ent("$include", PyURL(U("m", "")))>>)>>)>>)
      [] OTHER -> None
\* fetch_text(url) taken as raw text by $include
RawText(d) == PyStr(d)
\* The documents fetch_text fails for (NotFound / IOError)
Unreachable == {"m", "http://x/missing"}
\* fetch_text(url) raises: the failure is no ValidationException
FetchFailure == Crash("FetchFailure")

(***************************************************************************)
(* LoadingOptions.__init__ with copyfrom: idx, imports and includes are    *)
(* the parent's own objects (the variables idx, imports, includes).        *)
(***************************************************************************)
LoadingOptions(copyfrom, fileuri, baseuri, namespaces, oid) ==
    [ oid |-> oid,
      fileuri |-> IF fileuri # None THEN fileuri ELSE copyfrom.fileuri,
      baseuri |-> IF baseuri # None THEN baseuri ELSE copyfrom.baseuri,
      namespaces |-> IF namespaces # None THEN namespaces ELSE copyfrom.namespaces,
      vocab |-> IF namespaces # None THEN oid ELSE 0 ]

\* LoadingOptions() with no argument
RootOptions == [oid |-> 0, fileuri |-> None, baseuri |-> U("", ""), namespaces |-> PyDict(<<>>),
                vocab |-> 0]

Put(f, key, v) == [x \in (DOMAIN f) \cup {key} |-> IF x = key THEN v ELSE f[x]]

\* The text of a Python str
UrlText(u) == IF u.frg = "" THEN u.doc ELSE u.doc \o "#" \o u.frg
Text(d) == IF IsURLStr(d) THEN UrlText(d.u) ELSE d.s

\* The module-level _vocab and _rvocab the emitted module defines
_vocab == [k \in {"Any"} |-> "http://s#Any"]
_rvocab == [k \in {"http://s#Any"} |-> "Any"]

RECURSIVE AddNamespaces(_, _, _)
\* for k, v in namespaces.items(): vocab[k] = v; rvocab[v] = k
AddNamespaces(o, ents, i) ==
    IF i > Len(ents) THEN o
    ELSE AddNamespaces([o EXCEPT !.vocab = Put(@, ents[i].key, Text(ents[i].val)),
                                 !.rvocab = Put(@, Text(ents[i].val), ents[i].key)],
                       ents, i + 1)

\* LoadingOptions.__init__ that adds the namespaces to the module's dictionaries themselves
LoadingOptions_vocab_shared(vs, namespaces, oid) ==
    IF namespaces = None THEN vs
    ELSE LET o == AddNamespaces([vocab |-> vs[0].vocab, rvocab |-> vs[0].rvocab,
                                 ns |-> namespaces], namespaces.ents, 1)
         IN  Put(Put(vs, 0, [o EXCEPT !.ns = vs[0].ns]), oid, o)

\* The vocab and rvocab of LoadingOptions.__init__: the module's dictionaries, or, with
\* namespaces, copies of them with the namespaces added (ns: the namespaces given)
LoadingOptions_vocab(vs, namespaces, oid) ==
    IF namespaces = None THEN vs
    ELSE Put(vs, oid, AddNamespaces([vocab |-> vs[0].vocab, rvocab |-> vs[0].rvocab,
                                     ns |-> namespaces], namespaces.ents, 1))

(***************************************************************************)
(* Python str operations and urllib.parse, on the text of the strings.     *)
(***************************************************************************)
RECURSIVE Find(_, _, _)
\* Index of the first occurrence of the character c in s at or after i, 0 if there is none
Find(s, c, i) ==
    IF i > Len(s) THEN 0 ELSE IF SubSeq(s, i, i) = c THEN i ELSE Find(s, c, i + 1)
Contains(s, c) == Find(s, c, 1) > 0
startswith(s, pre) == Len(pre) <= Len(s) /\ SubSeq(s, 1, Len(pre)) = pre
endswith(s, suf) == Len(suf) <= Len(s) /\ SubSeq(s, Len(s) - Len(suf) + 1, Len(s)) = suf
\* s[i:], with i counted from 0
From(s, i) == SubSeq(s, i + 1, Len(s))
\* s.split(c, 1): the text before the first c and the text after it
Before(s, c) == IF Contains(s, c) THEN SubSeq(s, 1, Find(s, c, 1) - 1) ELSE s
After(s, c) == IF Contains(s, c) THEN From(s, Find(s, c, 1)) ELSE ""
RECURSIVE split(_, _)
\* s.split(c)
split(s, c) == IF Contains(s, c) THEN <<Before(s, c)>> \o split(After(s, c), c) ELSE <<s>>
RECURSIVE join(_, _)
\* c.join(q)
join(c, q) ==
    IF Len(q) = 0 THEN "" ELSE IF Len(q) = 1 THEN q[1] ELSE q[1] \o c \o join(c, Tail(q))

\* urllib.parse.scheme_chars, lower case
scheme_chars ==
    { "a", "b", "c", "d", "e", "f", "g", "h", "i", "j", "k", "l", "m", "n", "o", "p", "q",
      "r", "s", "t", "u", "v", "w", "x", "y", "z", "0", "1", "2", "3", "4", "5", "6", "7",
      "8", "9", "+", "-", "." }
uses_netloc == {"", "http", "https", "file", "ftp"}

RECURSIVE FirstOf(_, _, _)
\* Index of the first character of s at or after i that is in cs, Len(s) + 1 if none
FirstOf(s, cs, i) ==
    IF i > Len(s) THEN Len(s) + 1
    ELSE IF SubSeq(s, i, i) \in cs THEN i ELSE FirstOf(s, cs, i + 1)

\* urlsplit, the rest after scheme and netloc: fragment, query and path
urlsplit_path(scheme, netloc, url) ==
    [scheme |-> scheme, netloc |-> netloc, path |-> Before(Before(url, "#"), "?"),
     query |-> After(Before(url, "#"), "?"), fragment |-> After(url, "#")]
\* urlsplit, the rest after the scheme: a netloc runs from "//" to the next delimiter
urlsplit_netloc(scheme, url) ==
    urlsplit_path(scheme,
                  IF startswith(url, "//")
                  THEN SubSeq(url, 3, FirstOf(url, {"/", "?", "#"}, 3) - 1) ELSE "",
                  IF startswith(url, "//")
                  THEN From(url, FirstOf(url, {"/", "?", "#"}, 3) - 1) ELSE url)
\* url[:i] is a scheme: not empty, and of scheme characters only
IsScheme(url, i) == i > 1 /\ \A j \in 1..(i - 1) : SubSeq(url, j, j) \in scheme_chars
\* urlsplit with the first ":" of url at i
urlsplit_scheme(url, i) ==
    urlsplit_netloc(IF IsScheme(url, i) THEN SubSeq(url, 1, i - 1) ELSE "",
                    IF IsScheme(url, i) THEN From(url, i) ELSE url)
\* urllib.parse.urlsplit(url)
urlsplit(url) == urlsplit_scheme(url, Find(url, ":", 1))

\* urlunsplit, the query and the fragment appended to url
urlunsplit_query(url, query, fragment) ==
    (IF query # "" THEN url \o "?" \o query ELSE url)
        \o (IF fragment # "" THEN "#" \o fragment ELSE "")
\* urlunsplit, the scheme put before url
urlunsplit_scheme(scheme, url, query, fragment) ==
    urlunsplit_query(IF scheme # "" THEN scheme \o ":" \o url ELSE url, query, fragment)
\* urllib.parse.urlunsplit((scheme, netloc, path, query, fragment))
urlunsplit(scheme, netloc, path, query, fragment) ==
    urlunsplit_scheme(scheme,
        IF netloc # "" \/ (scheme # "" /\ scheme \in uses_netloc /\ ~startswith(path, "//"))
        THEN "//" \o netloc \o (IF path # "" /\ ~startswith(path, "/")
                                THEN "/" \o path ELSE path)
        ELSE path,
        query, fragment)

\* The schemes the fetcher can fetch
supported_schemes == {"http", "https", "file"}

RECURSIVE LastSlash(_, _)
LastSlash(s, i) == IF i = 0 THEN 0 ELSE IF SubSeq(s, i, i) = "/" THEN i ELSE LastSlash(s, i - 1)
\* Fetcher.urljoin on text: the relative reference url resolved against base_url, given
\* b = urlsplit(base_url) and r = urlsplit(url) (no dot segments in the references the
\* model uses)
urljoin_split(base_url, url, b, r) ==
    IF base_url = "" THEN url
    ELSE IF url = "" THEN base_url
    ELSE IF r.scheme # "" /\ r.scheme # b.scheme THEN url
    ELSE IF r.netloc # ""
         THEN urlunsplit(b.scheme, r.netloc, r.path, r.query, r.fragment)
    ELSE IF r.path = ""
         THEN urlunsplit(b.scheme, b.netloc, b.path,
                         IF r.query # "" THEN r.query ELSE b.query, r.fragment)
    ELSE IF startswith(r.path, "/")
         THEN urlunsplit(b.scheme, b.netloc, r.path, r.query, r.fragment)
    ELSE urlunsplit(b.scheme, b.netloc,
                    SubSeq(b.path, 1, LastSlash(b.path, Len(b.path))) \o r.path,
                    r.query, r.fragment)
Fetcher_urljoin(base_url, url) == urljoin_split(base_url, url, urlsplit(base_url), urlsplit(url))

\* The vocab and rvocab of an options object
Vocab(lo, vs) == vs[lo.vocab].vocab
RVocab(lo, vs) == vs[lo.vocab].rvocab

\* sp after `while n > 0 and len(sp) > 0: sp.pop(); n -= 1`
Popped(sp, n) == SubSeq(sp, 1, IF n >= Len(sp) THEN 0 ELSE IF n > 0 THEN Len(sp) - n ELSE Len(sp))

\* expand_url, the namespace prefix: url with the prefix before its first ":" replaced by
\* the vocabulary's entry for it
expand_url_prefix(url, prefix, vocab) ==
    IF DOMAIN vocab # {} /\ Contains(url, ":") /\ prefix \in DOMAIN vocab
    THEN vocab[prefix] \o From(url, Len(prefix) + 1)
    ELSE url

\* expand_url, the resolution against the base: url with split = urlsplit(url) and
\* splitbase = urlsplit(base_url)
expand_url_resolve(url, base_url, sp, splitbase, scoped_id, scoped_ref) ==
    IF (sp.scheme # "" /\ sp.scheme \in supported_schemes)
       \/ startswith(url, "$(") \/ startswith(url, "${")
    THEN url
    ELSE IF scoped_id /\ sp.fragment = ""
    THEN urlunsplit(splitbase.scheme, splitbase.netloc,
                    IF splitbase.path # "" THEN splitbase.path ELSE "/",
                    splitbase.query,
                    IF splitbase.fragment # ""
                    THEN splitbase.fragment \o "/" \o sp.path ELSE sp.path)
    ELSE IF scoped_ref # None /\ sp.fragment = ""
    THEN urlunsplit(splitbase.scheme, splitbase.netloc, splitbase.path,
                    splitbase.query,
                    join("/", Append(Popped(split(splitbase.fragment, "/"),
                                            scoped_ref.n), url)))
    ELSE Fetcher_urljoin(base_url, url)

\* expand_url from the prefixed url on
expand_url_join(url, base_url, scoped_id, scoped_ref) ==
    expand_url_resolve(url, base_url, urlsplit(url), urlsplit(base_url), scoped_id, scoped_ref)

\* expand_url, the vocabulary step on the resolved url
expand_url_term(url, vocab_term, rvocab) ==
    IF vocab_term
    THEN IF urlsplit(url).scheme # ""
         THEN IF url \in DOMAIN rvocab THEN Ok(rvocab[url]) ELSE Ok(url)
         ELSE Raise(ValidationException(<<"Term", url, "not in vocabulary">>, None, <<>>))
    ELSE Ok(url)

\* expand_url that pops one segment more than scoped_ref asks for
expand_url_pop_more(url0, base_url, lo, scoped_id, vocab_term, scoped_ref, vs) ==
    IF url0 \in {"@id", "@type"} THEN Ok(url0)
    ELSE IF vocab_term /\ url0 \in DOMAIN Vocab(lo, vs) THEN Ok(url0)
    ELSE expand_url_term(
             expand_url_join(expand_url_prefix(url0, split(url0, ":")[1], Vocab(lo, vs)),
                             base_url, scoped_id,
                             IF scoped_ref = None THEN None ELSE PyInt(scoped_ref.n + 1)),
             vocab_term, RVocab(lo, vs))

\* expand_url that returns a resolved URL without a scheme instead of raising
expand_url_no_raise(url0, base_url, lo, scoped_id, vocab_term, scoped_ref, vs) ==
    IF url0 \in {"@id", "@type"} THEN Ok(url0)
    ELSE IF vocab_term /\ url0 \in DOMAIN Vocab(lo, vs) THEN Ok(url0)
    ELSE Ok(expand_url_join(expand_url_prefix(url0, split(url0, ":")[1], Vocab(lo, vs)),
                            base_url, scoped_id, scoped_ref))

\* expand_url(url, base_url, loadingOptions, scoped_id, vocab_term, scoped_ref): the str
\* it returns, or the ValidationException it raises
expand_url(url0, base_url, lo, scoped_id, vocab_term, scoped_ref, vs) ==
    IF url0 \in {"@id", "@type"} THEN Ok(url0)
    ELSE IF vocab_term /\ url0 \in DOMAIN Vocab(lo, vs) THEN Ok(url0)
    ELSE expand_url_term(
             expand_url_join(expand_url_prefix(url0, split(url0, ":")[1], Vocab(lo, vs)),
                             base_url, scoped_id, scoped_ref),
             vocab_term, RVocab(lo, vs))

RECURSIVE rstrip(_, _)
\* s.rstrip(c)
rstrip(s, c) == IF Len(s) > 0 /\ endswith(s, c) THEN rstrip(SubSeq(s, 1, Len(s) - 1), c) ELSE s
\* os.path.dirname(p)
dirname(p) ==
    IF rstrip(SubSeq(p, 1, LastSlash(p, Len(p))), "/") = ""
    THEN SubSeq(p, 1, LastSlash(p, Len(p)))
    ELSE rstrip(SubSeq(p, 1, LastSlash(p, Len(p))), "/")
\* [x for x in abspath(p).split(sep) if x], for the paths of the model: without dot
\* segments, and p and the path it is compared with both absolute or both relative
path_list(p) == SelectSeq(split(p, "/"), LAMBDA x : x # "")
RECURSIVE commonprefix(_, _)
\* len(commonprefix([a, b]))
commonprefix(a, b) ==
    IF Len(a) = 0 \/ Len(b) = 0 \/ a[1] # b[1] THEN 0 ELSE 1 + commonprefix(Tail(a), Tail(b))
\* os.path.relpath from the segments of path and start, i of them in common
relpath_lists(pl, sl, i) ==
    IF Len(sl) = i /\ Len(pl) = i THEN "."
    ELSE join("/", [k \in 1..(Len(sl) - i) |-> ".."] \o SubSeq(pl, i + 1, Len(pl)))
\* os.path.relpath(path, start) of a non-empty path
relpath(path, start) ==
    relpath_lists(path_list(path), path_list(start),
                  commonprefix(path_list(path), path_list(start)))

\* save_relative_uri, the end: the fragment of the URI without basefrag
save_relative_uri_fragment(urisplit, basefrag) ==
    IF startswith(urisplit.fragment, basefrag)
    THEN Ok(From(urisplit.fragment, Len(basefrag)))
    ELSE Ok(urisplit.fragment)
\* save_relative_uri of a str with urisplit = urlsplit(uri), basesplit = urlsplit(base_url)
save_relative_uri_split(uri, urisplit, basesplit, ref_scope) ==
    IF urisplit.scheme = basesplit.scheme /\ urisplit.netloc = basesplit.netloc
    THEN IF urisplit.path # basesplit.path
         THEN IF urisplit.path = "" THEN Crash("ValueError")
              ELSE Ok(relpath(urisplit.path, dirname(basesplit.path))
                        \o (IF urisplit.fragment # "" THEN "#" \o urisplit.fragment ELSE ""))
         ELSE IF ref_scope # None /\ ref_scope.n # 0
         THEN IF ref_scope.n > Len(split(basesplit.fragment \o "/", "/"))
              THEN Crash("IndexError")
              ELSE save_relative_uri_fragment(urisplit,
                       join("/", SubSeq(split(basesplit.fragment \o "/", "/"), 1,
                                        Len(split(basesplit.fragment \o "/", "/"))
                                            - ref_scope.n)))
         ELSE save_relative_uri_fragment(urisplit, basesplit.fragment \o "/")
    ELSE Ok(uri)
\* save_relative_uri(uri, base_url, scoped_id, ref_scope, relative_uris) of a str: the str
\* it returns, or the error it ends in
save_relative_uri(uri, base_url, scoped_id, ref_scope, relative_uris) ==
    IF ~relative_uris \/ uri = base_url THEN Ok(uri)
    ELSE save_relative_uri_split(uri, urlsplit(uri), urlsplit(base_url), ref_scope)

(***************************************************************************)
(* The call's mutable state, threaded through the descent.                 *)
(***************************************************************************)
State == [idx |-> idx, imports |-> imports, includes |-> includes, fetched |-> fetched,
          line_numbers |-> line_numbers, nalloc |-> nalloc, trace |-> <<>>,
          vocabs |-> vocabs, cache |-> cache, arg |-> None]

\* global_doc / id_doc after walking `keys` down from the position table
RECURSIVE WalkKeys(_, _, _)
WalkKeys(g, ks, j) ==
    IF j > Len(ks) THEN g
    ELSE IF IsMap(g) /\ g.cm
         THEN WalkKeys(IF "s" \in DOMAIN ks[j] THEN Get(g, ks[j].s) ELSE None, ks, j + 1)
    ELSE IF IsSeq(g) /\ "i" \in DOMAIN ks[j]
         THEN WalkKeys(IF ks[j].i < Len(g.items) THEN g.items[ks[j].i + 1] ELSE None, ks, j + 1)
    ELSE None
Walk(g, keys) == IF keys = None THEN g ELSE WalkKeys(g, keys.items, 1)

\* The parameters the emitted fromDoc declares, and the keyword arguments
\* _RecordLoader.load calls it with
fromDoc_params == {"doc", "baseuri", "loadingOptions", "docRoot"}
RecordLoader_kwargs == {"docRoot", "keys"}

\* A nested call of the runtime: every operation below reaches the operations it
\* calls through Call, which is defined after them
\* copy.copy(line_numbers): the trace keeps the table a loader took and the file of the
\* options it was called with
Consulted(s, lo) ==
    [s EXCEPT !.trace = Append(@, [line_numbers |-> s.line_numbers, fileuri |-> lo.fileuri])]

\* The alternative t of a union raised a ValidationException: the trace keeps the
\* resolution context before and after it ran
Rejected(t, before, after) ==
    [after EXCEPT !.trace = Append(@, [rejected |-> t,
                                       idx |-> <<before.idx, after.idx>>,
                                       imports |-> <<before.imports, after.imports>>,
                                       includes |-> <<before.includes, after.includes>>])]

RECURSIVE Call(_)
CallLoad(t, doc, baseuri, lo, keys, docRoot, s, d) ==
    Call([f |-> "load", t |-> t, doc |-> doc, baseuri |-> baseuri, lo |-> lo, keys |-> keys,
          docRoot |-> docRoot, s |-> s, d |-> d])
CallLoadField(val, fieldtype, baseuri, lo, keys, s, d) ==
    Call([f |-> "load_field", val |-> val, fieldtype |-> fieldtype, baseuri |-> baseuri,
          lo |-> lo, keys |-> keys, s |-> s, d |-> d])
CallDocumentLoad(loader, doc, baseuri, lo, s, d) ==
    Call([f |-> "_document_load", loader |-> loader, doc |-> doc, baseuri |-> baseuri,
          lo |-> lo, s |-> s, d |-> d])
CallDocumentLoadByUrl(loader, url, lo, s, d) ==
    Call([f |-> "_document_load_by_url", loader |-> loader, url |-> url, lo |-> lo,
          s |-> s, d |-> d])
CallArrayLoop(t, doc, baseuri, lo, keys, append_index, i, acc, s, d) ==
    Call([f |-> "_ArrayLoader_loop", t |-> t, doc |-> doc, baseuri |-> baseuri, lo |-> lo,
          keys |-> keys, append_index |-> append_index, i |-> i, acc |-> acc, s |-> s, d |-> d])
CallFromDoc(cls, doc, baseuri, lo, docRoot, s, d) ==
    Call([f |-> "fromDoc", cls |-> cls, doc |-> doc, baseuri |-> baseuri, lo |-> lo,
          docRoot |-> docRoot, s |-> s, d |-> d])
CallFromDocFields(cls, _doc, lo, docRoot, i, acc, s, d) ==
    Call([f |-> "fromDoc_fields", cls |-> cls, doc |-> _doc, lo |-> lo, docRoot |-> docRoot,
          i |-> i, acc |-> acc, s |-> s, d |-> d])
CallUnionLoop(u, doc, baseuri, lo, keys, docRoot, temp_doc, j, errors, s, d) ==
    Call([f |-> "_UnionLoader_loop", u |-> u, doc |-> doc, baseuri |-> baseuri, lo |-> lo,
          keys |-> keys, docRoot |-> docRoot, temp_doc |-> temp_doc, j |-> j,
          errors |-> errors, s |-> s, d |-> d])

_AnyLoader_load(doc, s) ==
    IF doc # None THEN Res(s, Ok(doc))
    ELSE Res(s, Raise(ValidationException(<<"Expected non-null">>, None, <<>>)))

_PrimitiveLoader_load(t, doc, s) ==
    IF ~IsInstance(doc, t.tp)
    THEN Res(s, Raise(ValidationException(
             <<"Expected a", TypeRepr(t.tp), "but got", ClassName(doc)>>, None, <<>>)))
    ELSE Res(s, Ok(doc))

_EnumLoader_load(t, doc, s) ==
    IF \E i \in 1..Len(t.symbols) : doc = PyStr(t.symbols[i])
    THEN Res(s, Ok(doc))
    ELSE Res(s, Raise(ValidationException(<<"Expected one of">> \o t.symbols, None, <<>>)))

_ExpressionLoader_load(doc, s) ==
    IF ~IsStr(doc)
    THEN Res(s, Raise(ValidationException(<<"Expected a str, was", ClassName(doc)>>, None, <<>>)))
    ELSE Res(s, Ok(doc))

(***************************************************************************)
(* The classes the code generator emits: fromDoc, as begin_class,          *)
(* declare_id_field, declare_field and end_class write it.                 *)
(***************************************************************************)
\* A record class of the schema: its fields in the order they are declared, the
\* identifier field (declared required) first; no field is named `class`
Rec ==
    [name |-> "Rec", idfield |-> "id",
     fields |-> << [name |-> "id", optional |-> TRUE,
                    fieldtype |-> _URILoader(_PrimitiveLoader("str"), TRUE, FALSE, None)],
                   [name |-> "ref", optional |-> TRUE,
                    fieldtype |-> _URILoader(_PrimitiveLoader("str"), FALSE, FALSE, None)],
                   [name |-> "x", optional |-> FALSE, fieldtype |-> _PrimitiveLoader("int")] >>]
\* A mapping that is valid for the class Rec
ValidRec == CommentedMap(<<Ent("id", PyStr("r1")), Ent("x", PyInt(1))>>)
\* A record class with the identifier field only
Opt ==
    [name |-> "Opt", idfield |-> "id",
     fields |-> << [name |-> "id", optional |-> TRUE,
                    fieldtype |-> _URILoader(_PrimitiveLoader("str"), TRUE, FALSE, None)] >>]
classes == [c \in {"Rec", "Opt"} |-> IF c = "Rec" THEN Rec ELSE Opt]
\* cls.attrs
attrs(cls) == { cls.fields[i].name : i \in 1..Len(cls.fields) }

\* The parameters load_field declares, and the keyword argument the emitted field code
\* calls it with
load_field_params == {"val", "fieldtype", "baseuri", "loadingOptions", "keys"}
fromDoc_kwargs == {"lc"}

\* error_message != str(e): parse_errors rewrites a message that starts with "Expected"
\* into the set of the type names in it
parse_errors_rewrites(e) ==
    e.sl = None /\ Len(e.msg) > 0 /\ startswith(e.msg[1], "Expected")

\* What the except clause of a field appends to _errors__ for the exception e of load_field
fromDoc_field_error(f, _doc, e) ==
    ValidationException(<<"the", f.name, "field is not valid because:">>,
        SourceLine(_doc, KeyS(f.name)),
        IF parse_errors_rewrites(e)
        THEN <<ValidationException(<<"Expected one of", "parse_errors", "was",
                                     ClassName(Get(_doc, f.name))>>, None, <<>>)>>
        ELSE <<e>>)

\* fromDoc after the code of field i: for the identifier field, the code of
\* declare_id_field; then the next field
fromDoc_declared(cls, f, _doc, lo, docRoot, i, acc, s, d) ==
    IF f.name # cls.idfield THEN CallFromDocFields(cls, _doc, lo, docRoot, i + 1, acc, s, d)
    ELSE IF f.name \notin DOMAIN acc.vals THEN Res(s, Crash("UnboundLocalError"))
    ELSE IF acc.vals[f.name] # None
    THEN CallFromDocFields(cls, _doc, lo, docRoot, i + 1,
                           [acc EXCEPT !.baseuri = AsURL(acc.vals[f.name])], s, d)
    ELSE IF docRoot # None
    THEN CallFromDocFields(cls, _doc, lo, docRoot, i + 1,
                           [acc EXCEPT !.vals = Put(@, f.name, PyURL(docRoot))], s, d)
    ELSE CallFromDocFields(cls, _doc, lo, docRoot, i + 1,
             [acc EXCEPT !.errors = Append(@, ValidationException(<<"missing", f.name>>,
                                                                  None, <<>>))], s, d)

\* fromDoc after load_field returned or raised lf for field i
fromDoc_loaded(cls, f, _doc, lo, docRoot, i, acc, lf, d) ==
    IF lf.r.tag = "crash" THEN lf
    ELSE IF lf.r.tag = "ok"
    THEN fromDoc_declared(cls, f, _doc, lo, docRoot, i,
                          [acc EXCEPT !.vals = Put(@, f.name, lf.r.val)], lf.s, d)
    ELSE fromDoc_declared(cls, f, _doc, lo, docRoot, i,
             [acc EXCEPT !.errors = Append(@, fromDoc_field_error(f, _doc, lf.r.exc))],
             lf.s, d)

\* The code declare_field emits for the field f
fromDoc_field(cls, f, _doc, lo, docRoot, i, acc, s, d) ==
    IF f.optional /\ ~HasKey(_doc, f.name)
    THEN fromDoc_declared(cls, f, _doc, lo, docRoot, i,
                          [acc EXCEPT !.vals = Put(@, f.name, None)], s, d)
    ELSE IF Get(_doc, f.name) = None
    THEN fromDoc_declared(cls, f, _doc, lo, docRoot, i,
             [acc EXCEPT !.errors = Append(@, ValidationException(
                             <<"missing required field", f.name>>, None, <<>>))], s, d)
    ELSE \* load_field's body is entered only when the call binds to its parameters
         IF ~(fromDoc_kwargs \subseteq load_field_params) THEN Res(s, Crash("TypeError"))
         ELSE fromDoc_loaded(cls, f, _doc, lo, docRoot, i, acc,
                  CallLoadField(Get(_doc, f.name), f.fieldtype, acc.baseuri, lo, None, s, d), d)

RECURSIVE fromDoc_extension(_, _, _, _, _, _)
\* The loop of end_class over the keys of _doc that are no attribute of the class, from
\* key i on: the extension fields and the errors
fromDoc_extension(cls, _doc, i, x, lo, vs) ==
    IF i > Len(_doc.ents) THEN x
    ELSE IF _doc.ents[i].key \in attrs(cls) THEN fromDoc_extension(cls, _doc, i + 1, x, lo, vs)
    ELSE IF _doc.ents[i].key = ""
    THEN fromDoc_extension(cls, _doc, i + 1,
             [x EXCEPT !.errors = Append(@, ValidationException(
                             <<"mapping with implicit null key">>, None, <<>>))], lo, vs)
    ELSE IF Contains(_doc.ents[i].key, ":")
    THEN fromDoc_extension(cls, _doc, i + 1,
             [x EXCEPT !.ext = Append(@, Ent(expand_url(_doc.ents[i].key, "", lo, FALSE, FALSE,
                                                        None, vs).val, _doc.ents[i].val))],
             lo, vs)
    ELSE fromDoc_extension(cls, _doc, i + 1,
             [x EXCEPT !.errors = Append(@, ValidationException(
                             <<"invalid field", _doc.ents[i].key, "expected one of:">>,
                             SourceLine(_doc, KeyS(_doc.ents[i].key)), <<>>))], lo, vs)

\* The end of fromDoc: the record is constructed and registered in idx under its identifier
fromDoc_return(cls, lo, _constructed, s, d) ==
    Res([s EXCEPT !.idx = Put(@, AsURL(_constructed.vals[cls.idfield]),
                              [val |-> _constructed, lo |-> lo, pid |-> s.nalloc, lvl |-> d,
                               of |-> None]),
                  !.nalloc = @ + 1],
        Ok(_constructed))

\* fromDoc after the fields: x holds the extension fields and all errors
fromDoc_end(cls, lo, acc, x, s, d) ==
    IF Len(x.errors) > 0 THEN Res(s, Raise(ValidationException(<<>>, None, x.errors)))
    ELSE fromDoc_return(cls, lo,
             [k |-> "rec", cls |-> cls.name, vals |-> acc.vals,
              extension_fields |-> PyDict(x.ext), lo |-> lo.oid], s, d)

\* The field code of fromDoc, from field i on
fromDoc_fields(cls, _doc, lo, docRoot, i, acc, s, d) ==
    IF i > Len(cls.fields)
    THEN fromDoc_end(cls, lo, acc,
                     fromDoc_extension(cls, _doc, 1, [ext |-> <<>>, errors |-> acc.errors],
                                       lo, s.vocabs), s, d)
    ELSE fromDoc_field(cls, cls.fields[i], _doc, lo, docRoot, i, acc, s, d)

\* cls.fromDoc(doc, baseuri, loadingOptions, docRoot)
fromDoc(cls, doc, baseuri, lo, docRoot, s, d) ==
    fromDoc_fields(cls, doc, lo, docRoot, 1,
                   [vals |-> [n \in {} |-> None], errors |-> <<>>, baseuri |-> baseuri], s, d)

_RecordLoader_load(t, doc, baseuri, lo, keys, docRoot, s, d) ==
    IF ~IsMap(doc)
    THEN Res(s, Raise(ValidationException(<<"Expected a dict, was", ClassName(doc)>>, None, <<>>)))
    ELSE \* fromDoc's body is entered only when the call binds to its parameters
         IF ~(RecordLoader_kwargs \subseteq fromDoc_params) THEN Res(s, Crash("TypeError"))
         ELSE CallFromDoc(classes[t.classtype], doc, baseuri, lo, docRoot, s, d)

\* The loop of _ArrayLoader.load with append in place of extend
_ArrayLoader_loop_nested(t, doc, baseuri, lo, keys, append_index, i, acc, s, d) ==
    IF i > Len(doc.items)
    THEN IF Len(acc.errors) > 0
         THEN Res(s, Raise(ValidationException(<<>>, None, acc.errors)))
         ELSE Res(s, Ok(PyList(acc.r)))
    ELSE IF append_index /\ keys = None
    THEN Res(s, Crash("TypeError"))
    ELSE
      LET x == doc.items[i]
          ks == IF append_index THEN PyList(Append(keys.items, KeyI(i - 1))) ELSE keys
          lf == CallLoadField(x, _UnionLoader(<<t, t.items>>), baseuri, lo, ks, s, d)
      IN  IF lf.r.tag = "crash" THEN lf
          ELSE IF lf.r.tag = "VE"
          THEN CallArrayLoop(t, doc, baseuri, lo, keys, append_index, i + 1,
                   [acc EXCEPT !.errors =
                        Append(@, with_sourceline(lf.r.exc, SourceLine(doc, KeyI(i - 1))))],
                   lf.s, d)
          ELSE
            LET r2 == Append(acc.r, lf.r.val)
                hasid == IsMap(x) /\ x.cm /\ Get(x, "id") # None
                dup == hasid /\ \E j \in 1..Len(acc.fields) : acc.fields[j] = Get(x, "id")
                acc2 == [ r |-> r2,
                          errors |-> IF dup
                                     THEN Append(acc.errors, ValidationException(
                                              <<"Duplicate field">> \o StrPieces(Get(x, "id")),
                                              SourceLine(x, KeyS("id")), <<>>))
                                     ELSE acc.errors,
                          fields |-> IF hasid /\ ~dup THEN Append(acc.fields, Get(x, "id"))
                                     ELSE acc.fields ]
            IN  CallArrayLoop(t, doc, baseuri, lo, keys, append_index, i + 1, acc2, lf.s, d)

\* The loop of _ArrayLoader.load raising at the first element that fails
_ArrayLoader_loop_first_error(t, doc, baseuri, lo, keys, append_index, i, acc, s, d) ==
    IF i > Len(doc.items)
    THEN IF Len(acc.errors) > 0
         THEN Res(s, Raise(ValidationException(<<>>, None, acc.errors)))
         ELSE Res(s, Ok(PyList(acc.r)))
    ELSE IF append_index /\ keys = None
    THEN Res(s, Crash("TypeError"))
    ELSE
      LET x == doc.items[i]
          ks == IF append_index THEN PyList(Append(keys.items, KeyI(i - 1))) ELSE keys
          lf == CallLoadField(x, _UnionLoader(<<t, t.items>>), baseuri, lo, ks, s, d)
      IN  IF lf.r.tag = "crash" THEN lf
          ELSE IF lf.r.tag = "VE"
          THEN Res(lf.s, Raise(ValidationException(<<>>, None,
                   Append(acc.errors,
                          with_sourceline(lf.r.exc, SourceLine(doc, KeyI(i - 1)))))))
          ELSE
            LET r2 == IF IsSeq(lf.r.val) THEN acc.r \o lf.r.val.items
                      ELSE Append(acc.r, lf.r.val)
                hasid == IsMap(x) /\ x.cm /\ Get(x, "id") # None
                dup == hasid /\ \E j \in 1..Len(acc.fields) : acc.fields[j] = Get(x, "id")
                acc2 == [ r |-> r2,
                          errors |-> IF dup
                                     THEN Append(acc.errors, ValidationException(
                                              <<"Duplicate field">> \o StrPieces(Get(x, "id")),
                                              SourceLine(x, KeyS("id")), <<>>))
                                     ELSE acc.errors,
                          fields |-> IF hasid /\ ~dup THEN Append(acc.fields, Get(x, "id"))
                                     ELSE acc.fields ]
            IN  CallArrayLoop(t, doc, baseuri, lo, keys, append_index, i + 1, acc2, lf.s, d)

\* One iteration of the loop over the elements; acc = [r, errors, fields]
_ArrayLoader_loop(t, doc, baseuri, lo, keys, append_index, i, acc, s, d) ==
    IF i > Len(doc.items)
    THEN IF Len(acc.errors) > 0
         THEN Res(s, Raise(ValidationException(<<>>, None, acc.errors)))
         ELSE Res(s, Ok(PyList(acc.r)))
    ELSE IF append_index /\ keys = None
    THEN Res(s, Crash("TypeError"))
    ELSE
      LET x == doc.items[i]
          ks == IF append_index THEN PyList(Append(keys.items, KeyI(i - 1))) ELSE keys
          lf == CallLoadField(x, _UnionLoader(<<t, t.items>>), baseuri, lo, ks, s, d)
      IN  IF lf.r.tag = "crash" THEN lf
          ELSE IF lf.r.tag = "VE"
          THEN CallArrayLoop(t, doc, baseuri, lo, keys, append_index, i + 1,
                   [acc EXCEPT !.errors =
                        Append(@, with_sourceline(lf.r.exc, SourceLine(doc, KeyI(i - 1))))],
                   lf.s, d)
          ELSE
            LET r2 == IF IsSeq(lf.r.val) THEN acc.r \o lf.r.val.items
                      ELSE Append(acc.r, lf.r.val)
                hasid == IsMap(x) /\ x.cm /\ Get(x, "id") # None
                dup == hasid /\ \E j \in 1..Len(acc.fields) : acc.fields[j] = Get(x, "id")
                acc2 == [ r |-> r2,
                          errors |-> IF dup
                                     THEN Append(acc.errors, ValidationException(
                                              <<"Duplicate field">> \o StrPieces(Get(x, "id")),
                                              SourceLine(x, KeyS("id")), <<>>))
                                     ELSE acc.errors,
                          fields |-> IF hasid /\ ~dup THEN Append(acc.fields, Get(x, "id"))
                                     ELSE acc.fields ]
            IN  CallArrayLoop(t, doc, baseuri, lo, keys, append_index, i + 1, acc2, lf.s, d)

_ArrayLoader_load(t, doc, baseuri, lo, keys, s, d) ==
    IF ~IsSeq(doc)
    THEN Res(s, Raise(ValidationException(<<"Expected a list, was", ClassName(doc)>>, None, <<>>)))
    ELSE _ArrayLoader_loop(t, doc, baseuri, lo, keys, IsSeq(Walk(s.line_numbers, keys)), 1,
                           [r |-> <<>>, errors |-> <<>>, fields |-> <<>>],
                           Consulted(s, lo), d)

\* The except clause dropping the primitive alternatives of every document
_UnionLoader_except_no_prims(t, doc, baseuri, keys, temp_doc, e) ==
    IF IsMap(doc)
    THEN IF HasKey(doc, "class")
         THEN IF IsStr(Get(doc, "class")) /\ StrPieces(Get(doc, "class")) = Repr(t)
              THEN [do |-> "append",
                    err |-> ValidationException(
                        <<"Object">> \o UrlPieces(baseuri) \o <<"is not valid because">>,
                        SourceLine(doc, KeyS(doc.ents[1].key)), <<e>>)]
              ELSE [do |-> "nothing"]
         ELSE IF InStr("array", Repr(t))
         THEN [do |-> "nothing"]
         ELSE IF HasKey(doc, "id")
         THEN IF ~IsStr(Get(doc, "id"))
              THEN [do |-> "crash", what |-> "TypeError"]
              ELSE [do |-> "append",
                    err |-> ValidationException(
                        <<"checking object">> \o UrlPieces(baseuri) \o <<"#">>
                            \o StrPieces(Get(doc, "id")),
                        SourceLine(Walk(temp_doc, keys),
                                   IF HasKey(temp_doc, "id") THEN KeyS("id")
                                   ELSE Get(doc, "id")),
                        <<e>>)]
         ELSE IF t.t # "prim"
         THEN [do |-> "append",
               err |-> ValidationException(<<"tried">> \o Repr(t) \o <<"but">>, None, <<e>>)]
         ELSE [do |-> "nothing"]
    ELSE IF t.t = "prim" THEN [do |-> "nothing"]
    ELSE IF t.t = "enum"
         THEN [do |-> "append", err |-> ValidationException(<<>>, None, <<e>>)]
         ELSE [do |-> "append",
               err |-> ValidationException(<<"tried">> \o Repr(t) \o <<"but">>, None, <<e>>)]

\* The except clause reporting every alternative of a mapping with class
_UnionLoader_except_every_class(t, doc, baseuri, keys, temp_doc, e) ==
    IF IsMap(doc)
    THEN IF HasKey(doc, "class")
         THEN IF TRUE
              THEN [do |-> "append",
                    err |-> ValidationException(
                        <<"Object">> \o UrlPieces(baseuri) \o <<"is not valid because">>,
                        SourceLine(doc, KeyS(doc.ents[1].key)), <<e>>)]
              ELSE [do |-> "nothing"]
         ELSE IF InStr("array", Repr(t))
         THEN [do |-> "nothing"]
         ELSE IF HasKey(doc, "id")
         THEN IF ~IsStr(Get(doc, "id"))
              THEN [do |-> "crash", what |-> "TypeError"]
              ELSE [do |-> "append",
                    err |-> ValidationException(
                        <<"checking object">> \o UrlPieces(baseuri) \o <<"#">>
                            \o StrPieces(Get(doc, "id")),
                        SourceLine(Walk(temp_doc, keys),
                                   IF HasKey(temp_doc, "id") THEN KeyS("id")
                                   ELSE Get(doc, "id")),
                        <<e>>)]
         ELSE IF t.t # "prim"
         THEN [do |-> "append",
               err |-> ValidationException(<<"tried">> \o Repr(t) \o <<"but">>, None, <<e>>)]
         ELSE [do |-> "nothing"]
    ELSE IF t.t \in {"enum", "prim"}
         THEN [do |-> "append", err |-> ValidationException(<<>>, None, <<e>>)]
         ELSE [do |-> "append",
               err |-> ValidationException(<<"tried">> \o Repr(t) \o <<"but">>, None, <<e>>)]

\* What the except clause of _UnionLoader.load does with alternative t's error e:
\* appends an error, appends nothing, or fails itself
_UnionLoader_except(t, doc, baseuri, keys, temp_doc, e) ==
    IF IsMap(doc)
    THEN IF HasKey(doc, "class")
         THEN IF IsStr(Get(doc, "class")) /\ StrPieces(Get(doc, "class")) = Repr(t)
              THEN [do |-> "append",
                    err |-> ValidationException(
                        <<"Object">> \o UrlPieces(baseuri) \o <<"is not valid because">>,
                        SourceLine(doc, KeyS(doc.ents[1].key)), <<e>>)]
              ELSE [do |-> "nothing"]
         ELSE IF InStr("array", Repr(t))
         THEN [do |-> "nothing"]
         ELSE IF HasKey(doc, "id")
         THEN IF ~IsStr(Get(doc, "id"))
              THEN [do |-> "crash", what |-> "TypeError"]
              ELSE [do |-> "append",
                    err |-> ValidationException(
                        <<"checking object">> \o UrlPieces(baseuri) \o <<"#">>
                            \o StrPieces(Get(doc, "id")),
                        SourceLine(Walk(temp_doc, keys),
                                   IF HasKey(temp_doc, "id") THEN KeyS("id")
                                   ELSE Get(doc, "id")),
                        <<e>>)]
         ELSE IF t.t # "prim"
         THEN [do |-> "append",
               err |-> ValidationException(<<"tried">> \o Repr(t) \o <<"but">>, None, <<e>>)]
         ELSE [do |-> "nothing"]
    ELSE IF t.t \in {"enum", "prim"}
         THEN [do |-> "append", err |-> ValidationException(<<>>, None, <<e>>)]
         ELSE [do |-> "append",
               err |-> ValidationException(<<"tried">> \o Repr(t) \o <<"but">>, None, <<e>>)]

\* The statements after the loop of _UnionLoader.load, once every alternative failed
_UnionLoader_raise(u, doc, baseuri, errors, s) ==
    IF IsMap(doc) /\ HasKey(doc, "class")
    THEN IF ~IsStr(Get(doc, "class"))
         THEN Res(s, Crash("TypeError"))
         ELSE IF ~(~IsURLStr(Get(doc, "class"))
                   /\ InStr(Get(doc, "class").s,
                            <<"(">> \o JoinRepr(u.alternates, ", ") \o <<")">>))
         THEN Res(s, Raise(ValidationException(<<>>, None,
                  Append(errors, ValidationException(
                      <<"Field class contains undefined reference to">>
                          \o UrlPieces(baseuri) \o <<"/">> \o StrPieces(Get(doc, "class")),
                      SourceLine(doc, KeyS("class")), <<>>)))))
         ELSE Res(s, Raise(ValidationException(<<>>, None, errors)))
    ELSE Res(s, Raise(ValidationException(<<>>, None, errors)))

\* The loop over the alternatives, from alternative j on
_UnionLoader_loop(u, doc, baseuri, lo, keys, docRoot, temp_doc, j, errors, s, d) ==
    IF j > Len(u.alternates)
    THEN _UnionLoader_raise(u, doc, baseuri, errors, s)
    ELSE
      LET t == u.alternates[j]
          a == CallLoad(t, doc, baseuri, lo, keys, docRoot, s, d)
      IN  IF a.r.tag # "VE" THEN a
          ELSE
            LET x == _UnionLoader_except(t, doc, baseuri, keys, temp_doc, a.r.exc)
            IN  IF x.do = "crash" THEN Res(a.s, Crash(x.what))
                ELSE CallUnionLoop(u, doc, baseuri, lo, keys, docRoot, temp_doc, j + 1,
                         IF x.do = "append" THEN Append(errors, x.err) ELSE errors,
                         Rejected(t, s, a.s), d)

_UnionLoader_load(u, doc, baseuri, lo, keys, docRoot, s, d) ==
    _UnionLoader_loop(u, doc, baseuri, lo, keys, docRoot, s.line_numbers, 1, <<>>,
                      Consulted(s, lo), d)

(***************************************************************************)
(* LoadingOptions.check_exists and the loaders that rewrite the document   *)
(* before they hand it to their inner loader.                              *)
(***************************************************************************)
\* The paths os.path.exists finds
Files == {"/d"}

\* check_exists for a url it has not seen, sp being urlsplit(url)
check_exists_split(url, sp, seen, lo, s) ==
    IF sp.scheme \in {"http", "https"}
    THEN IF Before(url, "#") \in Unreachable
         THEN Res([s EXCEPT !.fetched = Append(@, [url |-> url, why |-> "exists"])], Ok(FALSE))
         ELSE Res([s EXCEPT !.fetched = Append(@, [url |-> url, why |-> "exists"]),
                            !.cache = Put(@, lo.oid, seen \cup {url})], Ok(TRUE))
    ELSE IF sp.scheme = "file" THEN Res(s, Ok(sp.path \in Files))
    ELSE IF sp.scheme = "mailto" THEN Res(s, Ok(TRUE))
    ELSE Res(s, Raise(ValidationException(
             <<"Unsupported scheme", sp.scheme, "in url:", url>>, None, <<>>)))

\* loadingOptions.check_exists(url): True, False, or the ValidationException for a scheme
\* it cannot check
check_exists(url, lo, s) ==
    IF lo.oid \in DOMAIN s.cache /\ url \in s.cache[lo.oid] THEN Res(s, Ok(TRUE))
    ELSE check_exists_split(url, urlsplit(url),
                            IF lo.oid \in DOMAIN s.cache THEN s.cache[lo.oid] ELSE {}, lo, s)

\* The str or the list a successful expansion gives, as a document
_URILoader_str(e) == IF e.tag = "ok" THEN Ok(PyStr(e.val)) ELSE e
_URILoader_list(e) == IF e.tag = "ok" THEN Ok(PyList(e.val)) ELSE e
\* What the loop of _URILoader.load appends for one item of a sequence
_URILoader_item(t, item, base_url, lo, vs) ==
    IF IsStr(item)
    THEN _URILoader_str(expand_url(Text(item), base_url, lo, t.scoped_id, t.vocab_term,
                                   t.scoped_ref, vs))
    ELSE Ok(item)
_URILoader_append(e, rest) ==
    IF e.tag # "ok" THEN e ELSE IF rest.tag # "ok" THEN rest ELSE Ok(<<e.val>> \o rest.val)
RECURSIVE _URILoader_expand(_, _, _, _, _, _)
\* newdoc of _URILoader.load for a sequence: every str item expanded
_URILoader_expand(t, items, i, base_url, lo, vs) ==
    IF i > Len(items) THEN Ok(<<>>)
    ELSE _URILoader_append(_URILoader_item(t, items[i], base_url, lo, vs),
                           _URILoader_expand(t, items, i + 1, base_url, lo, vs))

\* _URILoader.load for an expanded str doc, c being check_exists(doc)
_URILoader_exists(t, doc, c, baseuri, lo, keys, d) ==
    IF c.r.tag = "ok" /\ ~c.r.val
    THEN Res(c.s, Raise(ValidationException(<<>>, None,
             <<ValidationException(<<"contains undefined reference to", doc.s>>, None, <<>>)>>)))
    ELSE CallLoad(t.inner, doc, baseuri, lo, keys, None, c.s, d)

\* _URILoader.load from the expansion e of the document on
_URILoader_expanded(t, e, baseuri, lo, keys, s, d) ==
    IF e.tag # "ok" THEN Res(s, e)
    ELSE IF ~IsStr(e.val) THEN CallLoad(t.inner, e.val, baseuri, lo, keys, None, s, d)
    ELSE _URILoader_exists(t, e.val, check_exists(e.val.s, lo, s), baseuri, lo, keys, d)

_URILoader_load(t, doc, baseuri, lo, keys, s, d) ==
    _URILoader_expanded(t,
        IF IsSeq(doc)
        THEN _URILoader_list(_URILoader_expand(t, doc.items, 1, UrlText(baseuri), lo, s.vocabs))
        ELSE _URILoader_item(t, doc, UrlText(baseuri), lo, s.vocabs),
        baseuri, lo, keys, s, d)

\* typeDSLregex.match(doc), typeDSLregex being ^([^[?]+)(\[\])?(\?)?$ : the three groups a
\* match would have, doc being doc1 followed by group 3
typeDSLregex_groups(doc1, group3) ==
    [group1 |-> IF endswith(doc1, "[]") THEN SubSeq(doc1, 1, Len(doc1) - 2) ELSE doc1,
     group2 |-> endswith(doc1, "[]"), group3 |-> group3]
typeDSLregex_match(doc) ==
    typeDSLregex_groups(IF endswith(doc, "?") THEN SubSeq(doc, 1, Len(doc) - 1) ELSE doc,
                        endswith(doc, "?"))
\* The regex matches: group 1 is not empty and has neither "[" nor "?"
typeDSLregex_matches(m) ==
    m.group1 # "" /\ ~Contains(m.group1, "[") /\ ~Contains(m.group1, "?")

\* `second or first` and `third or second or first` of _TypeDSLLoader.resolve
_TypeDSLLoader_second(first, m) ==
    IF m.group2 THEN PyDict(<<Ent("type", PyStr("array")), Ent("items", first)>>) ELSE first
_TypeDSLLoader_third(second, m) ==
    IF m.group3 THEN PyList(<<PyStr("null"), second>>) ELSE second
_TypeDSLLoader_first(e, m) ==
    IF e.tag # "ok" THEN e
    ELSE Ok(_TypeDSLLoader_third(_TypeDSLLoader_second(PyStr(e.val), m), m))
_TypeDSLLoader_matched(t, doc, m, base_url, lo, vs) ==
    IF ~typeDSLregex_matches(m) THEN Ok(PyStr(doc))
    ELSE _TypeDSLLoader_first(expand_url(m.group1, base_url, lo, FALSE, TRUE, t.refScope, vs), m)

\* _TypeDSLLoader.resolve(doc, baseuri, loadingOptions)
_TypeDSLLoader_resolve(t, doc, base_url, lo, vs) ==
    _TypeDSLLoader_matched(t, doc, typeDSLregex_match(doc), base_url, lo, vs)

RECURSIVE AddNew(_, _, _)
\* for i in resolved: if i not in r: r.append(i)
AddNew(r, items, j) ==
    IF j > Len(items) THEN r
    ELSE AddNew(IF In(items[j], r) THEN r ELSE Append(r, items[j]), items, j + 1)

RECURSIVE _TypeDSLLoader_loop(_, _, _, _, _, _, _)
\* The loop of _TypeDSLLoader.load, after item i was resolved
_TypeDSLLoader_resolved(t, items, i, r, resolved, base_url, lo, vs) ==
    IF resolved.tag # "ok" THEN resolved
    ELSE _TypeDSLLoader_loop(t, items, i + 1,
             IF IsSeq(resolved.val) THEN AddNew(r, resolved.val.items, 1)
             ELSE AddNew(r, <<resolved.val>>, 1),
             base_url, lo, vs)
\* The loop of _TypeDSLLoader.load over a sequence, from item i on
_TypeDSLLoader_loop(t, items, i, r, base_url, lo, vs) ==
    IF i > Len(items) THEN Ok(r)
    ELSE IF IsStr(items[i])
    THEN _TypeDSLLoader_resolved(t, items, i, r,
             _TypeDSLLoader_resolve(t, Text(items[i]), base_url, lo, vs), base_url, lo, vs)
    ELSE _TypeDSLLoader_loop(t, items, i + 1, Append(r, items[i]), base_url, lo, vs)

\* _TypeDSLLoader.load from the rewritten document e on
_TypeDSLLoader_inner(t, e, baseuri, lo, keys, s, d) ==
    IF e.tag # "ok" THEN Res(s, e)
    ELSE CallLoad(t.inner, e.val, baseuri, lo, keys, None, s, d)

_TypeDSLLoader_load(t, doc, baseuri, lo, keys, s, d) ==
    _TypeDSLLoader_inner(t,
        IF IsSeq(doc)
        THEN _URILoader_list(_TypeDSLLoader_loop(t, doc.items, 1, <<>>, UrlText(baseuri), lo,
                                                 s.vocabs))
        ELSE IF IsStr(doc)
        THEN _TypeDSLLoader_resolve(t, Text(doc), UrlText(baseuri), lo, s.vocabs)
        ELSE Ok(doc),
        baseuri, lo, keys, s, d)

\* The characters of the keys, in code point order
CodePoints == "$-./0123456789:?@ABCDEFGHIJKLMNOPQRSTUVWXYZ[]_abcdefghijklmnopqrstuvwxyz"
RECURSIVE StrLess(_, _)
\* a < b of two str
StrLess(a, b) ==
    IF b = "" THEN FALSE
    ELSE IF a = "" THEN TRUE
    ELSE IF Head(a) = Head(b) THEN StrLess(Tail(a), Tail(b))
    ELSE Find(CodePoints, Head(a), 1) < Find(CodePoints, Head(b), 1)
RECURSIVE sorted(_)
\* sorted(keys)
sorted(S) ==
    IF S = {} THEN <<>>
    ELSE LET m == CHOOSE x \in S : \A y \in S : ~StrLess(y, x)
         IN  <<m>> \o sorted(S \ {m})

\* _IdMapLoader.load that sets the subject key on the value itself, not on a copy
_IdMapLoader_entry_in_place(t, doc, k) ==
    LET val == Get(doc, k)
    IN  IF IsMap(val)
        THEN [v |-> Ok(SetItem(val, t.mapSubject, PyStr(k))),
              doc |-> SetItem(doc, k, SetItem(val, t.mapSubject, PyStr(k)))]
        ELSE IF t.mapPredicate # None /\ t.mapPredicate.s # ""
        THEN [v |-> Ok(SetItem(PyDict(<<Ent(t.mapPredicate.s, val)>>), t.mapSubject, PyStr(k))),
              doc |-> doc]
        ELSE [v |-> Raise(ValidationException(<<"No mapPredicate">>, None, <<>>)), doc |-> doc]

\* One turn of the loop of _IdMapLoader.load: the entry v appended for key k, and the
\* input mapping as the turn leaves it
_IdMapLoader_entry(t, doc, k) ==
    LET val == Get(doc, k)
        copy == val
    IN  IF IsMap(val)
        THEN [v |-> Ok(SetItem(copy, t.mapSubject, PyStr(k))), doc |-> doc]
        ELSE IF t.mapPredicate # None /\ t.mapPredicate.s # ""
        THEN [v |-> Ok(SetItem(PyDict(<<Ent(t.mapPredicate.s, val)>>), t.mapSubject, PyStr(k))),
              doc |-> doc]
        ELSE [v |-> Raise(ValidationException(<<"No mapPredicate">>, None, <<>>)), doc |-> doc]

RECURSIVE _IdMapLoader_loop(_, _, _, _, _)
\* The loop of _IdMapLoader.load over keys[i..]
_IdMapLoader_loop(t, doc, keys, i, r) ==
    IF i > Len(keys) THEN [r |-> Ok(r), doc |-> doc]
    ELSE LET e == _IdMapLoader_entry(t, doc, keys[i])
         IN  IF e.v.tag # "ok" THEN [r |-> e.v, doc |-> e.doc]
             ELSE _IdMapLoader_loop(t, e.doc, keys, i + 1, Append(r, e.v.val))

\* s.arg: the mapping the caller passed, as the loader leaves it
_IdMapLoader_load(t, doc, baseuri, lo, keys, s, d) ==
    IF IsMap(doc)
    THEN LET L == _IdMapLoader_loop(t, doc,
                      sorted({ doc.ents[i].key : i \in 1..Len(doc.ents) }), 1, <<>>)
             s1 == [s EXCEPT !.arg = L.doc]
         IN  IF L.r.tag # "ok" THEN Res(s1, L.r)
             ELSE CallLoad(t.inner, PyList(L.r.val), baseuri, lo, keys, None, s1, d)
    ELSE CallLoad(t.inner, doc, baseuri, lo, keys, None, s, d)

\* The canonical entry of _SecondaryDSLLoader.load for a str
SecondaryDSL_str(d) ==
    IF endswith(d, "?")
    THEN PyDict(<<Ent("pattern", PyStr(SubSeq(d, 1, Len(d) - 1))),
                  Ent("required", PyBool(FALSE))>>)
    ELSE PyDict(<<Ent("pattern", PyStr(d))>>)
\* The canonical entry for a mapping, or the ValidationException it is rejected with
SecondaryDSL_dict(d) ==
    LET dict_copy == Popped_key(Popped_key(d, "pattern"), "required")
    IN  IF ~HasKey(d, "pattern")
        THEN Raise(ValidationException(
                 <<"Missing pattern in secondaryFiles specification entry:", ClassName(d)>>,
                 None, <<>>))
        ELSE IF Len(dict_copy.ents) # 0
        THEN Raise(ValidationException(
                 <<"Unallowed values in secondaryFiles specification entry:", ClassName(d)>>,
                 None, <<>>))
        ELSE Ok(PyDict(<<Ent("pattern", Get(d, "pattern")),
                         Ent("required", IF HasKey(d, "required") THEN Get(d, "required")
                                         ELSE None)>>))
RECURSIVE _SecondaryDSLLoader_loop(_, _, _)
\* The loop of _SecondaryDSLLoader.load over a sequence, from item i on
_SecondaryDSLLoader_loop(items, i, r) ==
    IF i > Len(items) THEN Ok(r)
    ELSE IF IsStr(items[i])
    THEN _SecondaryDSLLoader_loop(items, i + 1, Append(r, SecondaryDSL_str(Text(items[i]))))
    ELSE IF IsMap(items[i])
    THEN LET e == SecondaryDSL_dict(items[i])
         IN  IF e.tag # "ok" THEN e
             ELSE _SecondaryDSLLoader_loop(items, i + 1, Append(r, e.val))
    ELSE Raise(ValidationException(<<"Expected a string or sequence of (strings or mappings).">>,
                                   None, <<>>))

\* The parameters _Loader.load declares after self, in order
load_params == <<"doc", "baseuri", "loadingOptions", "keys", "docRoot">>
\* self.inner.load(r, baseuri, loadingOptions, docRoot, keys=keys): the number of
\* positional arguments and the keyword arguments of the call
SecondaryDSL_positional == 4
SecondaryDSL_keywords == {"keys"}

_SecondaryDSLLoader_load(t, doc, baseuri, lo, keys, docRoot, s, d) ==
    LET e == IF IsSeq(doc) THEN _SecondaryDSLLoader_loop(doc.items, 1, <<>>)
             ELSE IF IsMap(doc)
             THEN (LET x == SecondaryDSL_dict(doc)
                   IN  IF x.tag # "ok" THEN x ELSE Ok(<<x.val>>))
             ELSE IF IsStr(doc) THEN Ok(<<SecondaryDSL_str(Text(doc))>>)
             ELSE Raise(ValidationException(<<"Expected str or sequence of str">>, None, <<>>))
    IN  IF e.tag # "ok" THEN Res(s, e)
        ELSE IF \E j \in 1..SecondaryDSL_positional : load_params[j] \in SecondaryDSL_keywords
        THEN Res(s, Crash("TypeError"))
        ELSE CallLoad(t.inner, PyList(e.val), baseuri, lo, docRoot, None, s, d)

\* t.load(doc, baseuri, loadingOptions, keys, docRoot)
Load(t, doc, baseuri, lo, keys, docRoot, s0, d) ==
    LET s == [s0 EXCEPT !.trace = Append(@, [t |-> t, doc |-> doc])]
    IN  CASE t.t = "any" -> _AnyLoader_load(doc, s)
          [] t.t = "prim" -> _PrimitiveLoader_load(t, doc, s)
          [] t.t = "enum" -> _EnumLoader_load(t, doc, s)
          [] t.t = "expr" -> _ExpressionLoader_load(doc, s)
          [] t.t = "record" -> _RecordLoader_load(t, doc, baseuri, lo, keys, docRoot, s, d)
          [] t.t = "array" -> _ArrayLoader_load(t, doc, baseuri, lo, keys, s, d)
          [] t.t = "union" -> _UnionLoader_load(t, doc, baseuri, lo, keys, docRoot, s, d)
          [] t.t = "uri" -> _URILoader_load(t, doc, baseuri, lo, keys, s, d)
          [] t.t = "typedsl" -> _TypeDSLLoader_load(t, doc, baseuri, lo, keys, s, d)
          [] t.t = "idmap" -> _IdMapLoader_load(t, doc, baseuri, lo, keys, s, d)
          [] t.t = "secondarydsl" ->
                 _SecondaryDSLLoader_load(t, doc, baseuri, lo, keys, docRoot, s, d)

\* load_field that leaves the $import out of the provenance log
load_field_unlogged(val, fieldtype, baseuri, lo, keys, s, d) ==
    IF IsMap(val) /\ HasKey(val, "$import")
    THEN IF lo.fileuri = None
         THEN Res(s, Crash("SchemaSaladException"))
         ELSE IF ~IsStr(Get(val, "$import"))
         THEN Res(s, Crash("TypeError"))
         ELSE
           LET url == urljoin(lo.fileuri, AsURL(Get(val, "$import")))
               R == CallDocumentLoadByUrl(fieldtype, url, lo, s, d)
           IN  IF R.r.tag # "ok" THEN R
               ELSE Res([R.s EXCEPT !.trace = Append(@, [imported |-> url, val |-> val,
                                                         fieldtype |-> fieldtype, fileuri |-> lo.fileuri,
                                                         pair |-> R.r.val])],
                        Ok(R.r.val.val))
    ELSE IF IsMap(val) /\ HasKey(val, "$include")
    THEN IF lo.fileuri = None
         THEN Res(s, Crash("SchemaSaladException"))
         ELSE IF ~IsStr(Get(val, "$include"))
         THEN Res(s, Crash("TypeError"))
         ELSE
           LET url == urljoin(lo.fileuri, AsURL(Get(val, "$include")))
               s0 == [s EXCEPT !.fetched = Append(@, [url |-> url, why |-> "include"])]
               s1 == [s0 EXCEPT !.includes = Append(@, url)]
           IN  IF url.doc \in Unreachable THEN Res(s0, FetchFailure)
               ELSE CallLoad(fieldtype, RawText(url.doc), baseuri, lo, keys, None, s1, d)
    ELSE CallLoad(fieldtype, val, baseuri, lo, keys, None, s, d)

\* load_field that records the $import before loading it
load_field_import_first(val, fieldtype, baseuri, lo, keys, s, d) ==
    IF IsMap(val) /\ HasKey(val, "$import")
    THEN IF lo.fileuri = None
         THEN Res(s, Crash("SchemaSaladException"))
         ELSE IF ~IsStr(Get(val, "$import"))
         THEN Res(s, Crash("TypeError"))
         ELSE
           LET url == urljoin(lo.fileuri, AsURL(Get(val, "$import")))
               R == CallDocumentLoadByUrl(fieldtype, url, lo,
                                          [s EXCEPT !.imports = Append(@, url)], d)
           IN  IF R.r.tag # "ok" THEN R
               ELSE Res([R.s EXCEPT !.trace = Append(@, [imported |-> url, val |-> val,
                                                         fieldtype |-> fieldtype, fileuri |-> lo.fileuri,
                                                         pair |-> R.r.val])],
                        Ok(R.r.val.val))
    ELSE IF IsMap(val) /\ HasKey(val, "$include")
    THEN IF lo.fileuri = None
         THEN Res(s, Crash("SchemaSaladException"))
         ELSE IF ~IsStr(Get(val, "$include"))
         THEN Res(s, Crash("TypeError"))
         ELSE
           LET url == urljoin(lo.fileuri, AsURL(Get(val, "$include")))
               s0 == [s EXCEPT !.fetched = Append(@, [url |-> url, why |-> "include"])]
               s1 == [s0 EXCEPT !.includes = Append(@, url)]
           IN  IF url.doc \in Unreachable THEN Res(s0, FetchFailure)
               ELSE CallLoad(fieldtype, RawText(url.doc), baseuri, lo, keys, None, s1, d)
    ELSE CallLoad(fieldtype, val, baseuri, lo, keys, None, s, d)

load_field(val, fieldtype, baseuri, lo, keys, s, d) ==
    IF IsMap(val) /\ HasKey(val, "$import")
    THEN IF lo.fileuri = None
         THEN Res(s, Crash("SchemaSaladException"))
         ELSE IF ~IsStr(Get(val, "$import"))
         THEN Res(s, Crash("TypeError"))
         ELSE
           LET url == urljoin(lo.fileuri, AsURL(Get(val, "$import")))
               R == CallDocumentLoadByUrl(fieldtype, url, lo, s, d)
           IN  IF R.r.tag # "ok" THEN R
               ELSE Res([R.s EXCEPT !.imports = Append(@, url),
                                    !.trace = Append(@, [imported |-> url, val |-> val,
                                                         fieldtype |-> fieldtype, fileuri |-> lo.fileuri,
                                                         pair |-> R.r.val])],
                        Ok(R.r.val.val))
    ELSE IF IsMap(val) /\ HasKey(val, "$include")
    THEN IF lo.fileuri = None
         THEN Res(s, Crash("SchemaSaladException"))
         ELSE IF ~IsStr(Get(val, "$include"))
         THEN Res(s, Crash("TypeError"))
         ELSE
           LET url == urljoin(lo.fileuri, AsURL(Get(val, "$include")))
               s0 == [s EXCEPT !.fetched = Append(@, [url |-> url, why |-> "include"])]
               s1 == [s0 EXCEPT !.includes = Append(@, url)]
           IN  IF url.doc \in Unreachable THEN Res(s0, FetchFailure)
               ELSE CallLoad(fieldtype, RawText(url.doc), baseuri, lo, keys, None, s1, d)
    ELSE CallLoad(fieldtype, val, baseuri, lo, keys, None, s, d)

\* _document_load that memoizes under the effective base only
_document_load_base_only(loader, doc, baseuri, lo, s, d) ==
    IF IsStr(doc)
    THEN CallDocumentLoadByUrl(loader, urljoin(baseuri, AsURL(doc)), lo, s, d)
    ELSE IF IsMap(doc)
    THEN
      LET hasbase == HasKey(doc, "$base")
          base2 == IF hasbase THEN Get(doc, "$base").u ELSE baseuri
          lo2 == LoadingOptions(lo, None, IF hasbase THEN base2 ELSE None,
                                Get(doc, "$namespaces"), s.nalloc)
          ns == Get(doc, "$namespaces")
          s1 == [s EXCEPT !.nalloc = @ + 1,
                          !.vocabs = LoadingOptions_vocab(@, ns, s.nalloc),
                          !.line_numbers = IF doc.cm THEN doc ELSE @]
          L == IF HasKey(doc, "$graph")
               THEN CallLoad(loader, Get(doc, "$graph"), base2, lo2, None, None, s1, d)
               ELSE CallLoad(loader, doc, base2, lo2, None, base2, s1, d)
      IN  IF ns # None /\ ~IsMap(ns) THEN Res(s, Crash("AttributeError"))
          ELSE IF L.r.tag # "ok" THEN L
          ELSE
            LET pair == [val |-> L.r.val, lo |-> lo2, pid |-> L.s.nalloc, lvl |-> d,
                         of |-> baseuri]
                idx1 == Put(L.s.idx, base2, pair)
            IN  Res([L.s EXCEPT !.idx = idx1, !.nalloc = @ + 1], Ok(idx1[base2]))
    ELSE IF IsSeq(doc)
    THEN
      LET L == CallLoad(loader, doc, baseuri, lo, None, None, s, d)
      IN  IF L.r.tag # "ok" THEN L
          ELSE
            LET pair == [val |-> L.r.val, lo |-> lo, pid |-> L.s.nalloc, lvl |-> d,
                         of |-> baseuri]
                idx1 == Put(L.s.idx, baseuri, pair)
            IN  Res([L.s EXCEPT !.idx = idx1, !.nalloc = @ + 1], Ok(idx1[baseuri]))
    ELSE Res(s, Raise(ValidationException(
             <<"Expected URI string, MutableMapping or MutableSequence, got", ClassName(doc)>>,
             None, <<>>)))

_document_load(loader, doc, baseuri, lo, s, d) ==
    IF IsStr(doc)
    THEN CallDocumentLoadByUrl(loader, urljoin(baseuri, AsURL(doc)), lo, s, d)
    ELSE IF IsMap(doc)
    THEN
      LET docuri == baseuri
          hasbase == HasKey(doc, "$base")
          base2 == IF hasbase THEN Get(doc, "$base").u ELSE baseuri
          lo2 == LoadingOptions(lo, None, IF hasbase THEN base2 ELSE None,
                                Get(doc, "$namespaces"), s.nalloc)
          ns == Get(doc, "$namespaces")
          s1 == [s EXCEPT !.nalloc = @ + 1,
                          !.vocabs = LoadingOptions_vocab(@, ns, s.nalloc),
                          !.line_numbers = IF doc.cm THEN doc ELSE @]
          L == IF HasKey(doc, "$graph")
               THEN CallLoad(loader, Get(doc, "$graph"), base2, lo2, None, None, s1, d)
               ELSE CallLoad(loader, doc, base2, lo2, None, base2, s1, d)
      IN  IF ns # None /\ ~IsMap(ns) THEN Res(s, Crash("AttributeError"))
          ELSE IF L.r.tag # "ok" THEN L
          ELSE
            LET pair == [val |-> L.r.val, lo |-> lo2, pid |-> L.s.nalloc, lvl |-> d,
                         of |-> docuri]
                idx1 == Put(L.s.idx, base2, pair)
                idx2 == IF docuri # base2 THEN Put(idx1, docuri, idx1[base2]) ELSE idx1
            IN  Res([L.s EXCEPT !.idx = idx2, !.nalloc = @ + 1], Ok(idx2[base2]))
    ELSE IF IsSeq(doc)
    THEN
      LET L == CallLoad(loader, doc, baseuri, lo, None, None, s, d)
      IN  IF L.r.tag # "ok" THEN L
          ELSE
            LET pair == [val |-> L.r.val, lo |-> lo, pid |-> L.s.nalloc, lvl |-> d,
                         of |-> baseuri]
                idx1 == Put(L.s.idx, baseuri, pair)
            IN  Res([L.s EXCEPT !.idx = idx1, !.nalloc = @ + 1], Ok(idx1[baseuri]))
    ELSE Res(s, Raise(ValidationException(
             <<"Expected URI string, MutableMapping or MutableSequence, got", ClassName(doc)>>,
             None, <<>>)))

\* _document_load_by_url that never consults idx before fetching
_document_load_by_url_uncached(loader, url, lo, s, d) ==
    IF d = 0 THEN Res(s, Crash("RecursionError"))
    ELSE
      LET doc_url == urldefrag(url)[1]
          s0 == [s EXCEPT !.fetched = Append(@, [url |-> doc_url, why |-> "load"])]
          s1 == [s0 EXCEPT !.nalloc = @ + 1]
          result == Parsed(doc_url.doc)
          lo2 == LoadingOptions(lo, doc_url, None, None, s.nalloc)
          R == CallDocumentLoad(loader, result, doc_url, lo2, s1, d - 1)
      IN  IF doc_url.doc \in Unreachable THEN Res(s0, FetchFailure)
          ELSE IF R.r.tag # "ok" THEN R
          ELSE IF url \in DOMAIN R.s.idx THEN Res(R.s, Ok(R.s.idx[url]))
          ELSE Res(R.s, Crash("KeyError"))

_document_load_by_url(loader, url, lo, s, d) ==
    IF d = 0 THEN Res(s, Crash("RecursionError"))
    ELSE IF url \in DOMAIN s.idx THEN Res(s, Ok(s.idx[url]))
    ELSE
      LET doc_url == urldefrag(url)[1]
          s0 == [s EXCEPT !.fetched = Append(@, [url |-> doc_url, why |-> "load"])]
          s1 == [s0 EXCEPT !.nalloc = @ + 1]
          result == Parsed(doc_url.doc)
          lo2 == LoadingOptions(lo, doc_url, None, None, s.nalloc)
          R == CallDocumentLoad(loader, result, doc_url, lo2, s1, d - 1)
      IN  IF doc_url.doc \in Unreachable THEN Res(s0, FetchFailure)
          ELSE IF R.r.tag # "ok" THEN R
          ELSE IF url \in DOMAIN R.s.idx THEN Res(R.s, Ok(R.s.idx[url]))
          ELSE Res(R.s, Crash("KeyError"))

Call(c) ==
    CASE c.f = "load" -> Load(c.t, c.doc, c.baseuri, c.lo, c.keys, c.docRoot, c.s, c.d)
      [] c.f = "load_field" ->
             load_field(c.val, c.fieldtype, c.baseuri, c.lo, c.keys, c.s, c.d)
      [] c.f = "_document_load" -> _document_load(c.loader, c.doc, c.baseuri, c.lo, c.s, c.d)
      [] c.f = "_document_load_by_url" -> _document_load_by_url(c.loader, c.url, c.lo, c.s, c.d)
      [] c.f = "_ArrayLoader_loop" ->
             _ArrayLoader_loop(c.t, c.doc, c.baseuri, c.lo, c.keys, c.append_index, c.i,
                               c.acc, c.s, c.d)
      [] c.f = "_UnionLoader_loop" ->
             _UnionLoader_loop(c.u, c.doc, c.baseuri, c.lo, c.keys, c.docRoot, c.temp_doc,
                               c.j, c.errors, c.s, c.d)
      [] c.f = "fromDoc" -> fromDoc(c.cls, c.doc, c.baseuri, c.lo, c.docRoot, c.s, c.d)
      [] c.f = "fromDoc_fields" ->
             fromDoc_fields(c.cls, c.doc, c.lo, c.docRoot, c.i, c.acc, c.s, c.d)

(***************************************************************************)
(* The loaders, documents and URLs the calls are made with.                *)
(***************************************************************************)
inttype == _PrimitiveLoader("int")
strtype == _PrimitiveLoader("str")
Any_type == _AnyLoader
array_of_inttype == _ArrayLoader(inttype)
array_of_strtype == _ArrayLoader(strtype)
array_of_Any_type == _ArrayLoader(Any_type)

URLs == { U("a", ""), U("a", "f"), U("b", ""), U("c", ""), U("c", "main"),
          U("g", ""), U("i", ""), U("cyc", ""), U("n", ""),
          U("m", ""), U("am", ""), U("um", ""), U("im", ""),
          U("p", ""), U("pq", ""), U("ca", ""), U("ip", "") }

ByUrlInputs ==
    { [loader |-> l, url |-> u] : l \in {array_of_inttype, Any_type}, u \in URLs }
    \cup { [loader |-> array_of_strtype, url |-> u] : u \in {U("i", ""), U("im", "")} }

ImportB == CommentedMap(<<Ent("$import", PyURL(U("b", "")))>>)
ImportG == CommentedMap(<<Ent("$import", PyURL(U("g", "")))>>)

DocLoadInputs ==
    { [loader |-> Any_type, doc |-> Parsed("c"), baseuri |-> U("x", ""), fileuri |-> None],
      [loader |-> Any_type, doc |-> Parsed("c"), baseuri |-> U("c", "main"), fileuri |-> None],
      [loader |-> array_of_inttype, doc |-> Parsed("c"), baseuri |-> U("x", ""), fileuri |-> None],
      [loader |-> Any_type, doc |-> CommentedMap(<<Ent("x", PyInt(1))>>),
       baseuri |-> U("x", ""), fileuri |-> None],
      [loader |-> Any_type, doc |-> PyDict(<<Ent("$base", PyURL(U("b", "")))>>),
       baseuri |-> U("x", ""), fileuri |-> None],
      [loader |-> array_of_inttype, doc |-> PyList(<<PyInt(1), ImportB>>),
       baseuri |-> U("x", ""), fileuri |-> U("x", "")],
      [loader |-> array_of_inttype, doc |-> PyList(<<PyInt(1), ImportB>>),
       baseuri |-> U("x", ""), fileuri |-> None],
      [loader |-> array_of_inttype, doc |-> PyList(<<PyInt(1), PyInt(2)>>),
       baseuri |-> U("a", ""), fileuri |-> None],
      [loader |-> array_of_inttype, doc |-> PyURL(U("a", "")),
       baseuri |-> U("x", ""), fileuri |-> None],
      [loader |-> array_of_inttype, doc |-> PyURL(U("", "f")),
       baseuri |-> U("a", ""), fileuri |-> None],
      [loader |-> Any_type, doc |-> Parsed("g"), baseuri |-> U("g", ""), fileuri |-> None],
      [loader |-> array_of_inttype,
       doc |-> CommentedMap(<<Ent("$graph", PyList(<<ImportB, PyStr("z")>>))>>),
       baseuri |-> U("b", ""), fileuri |-> U("b", "")],
      [loader |-> array_of_inttype,
       doc |-> CommentedMap(<<Ent("$base", PyURL(U("y", ""))),
                              Ent("$graph", PyList(<<ImportB, PyInt(4)>>))>>),
       baseuri |-> U("x", ""), fileuri |-> U("x", "")],
      [loader |-> array_of_inttype, doc |-> PyList(<<ImportG>>),
       baseuri |-> U("x", ""), fileuri |-> U("x", "")],
      [loader |-> array_of_Any_type, doc |-> PyList(<<PyList(<<ImportB, None>>)>>),
       baseuri |-> U("x", ""), fileuri |-> U("x", "")] }

NoCall == [kind |-> "none"]

Init ==
    /\ idx = [x \in {} |-> None]
    /\ imports = <<>>
    /\ includes = <<>>
    /\ fetched = <<>>
    /\ line_numbers = CommentedMap(<<>>)
    /\ nalloc = 1
    /\ trace = <<>>
    /\ cache = [o \in {} |-> {}]
    /\ vocabs = [o \in {0} |-> [vocab |-> _vocab, rvocab |-> _rvocab, ns |-> None]]
    /\ ncalls = 0
    /\ last = NoCall
    /\ prev = NoCall

\* The call's effect on the variables
Commit(R, call) ==
    /\ idx' = R.s.idx
    /\ imports' = R.s.imports
    /\ includes' = R.s.includes
    /\ fetched' = R.s.fetched
    /\ line_numbers' = R.s.line_numbers
    /\ nalloc' = R.s.nalloc
    /\ trace' = R.s.trace
    /\ vocabs' = R.s.vocabs
    /\ cache' = R.s.cache
    /\ ncalls' = ncalls + 1
    /\ prev' = last
    /\ last' = [kind |-> call.kind, loader |-> call.loader, url |-> call.url, doc |-> call.doc,
                baseuri |-> call.baseuri, r |-> R.r, arg |-> R.s.arg, s0 |-> State]

\* _document_load_by_url(loader, url, loadingOptions) with the root options
DocumentLoadByUrl(in) ==
    /\ ncalls < MaxCalls
    /\ Commit(CallDocumentLoadByUrl(in.loader, in.url, RootOptions, State, MaxDepth),
              [kind |-> "byurl", loader |-> in.loader, url |-> in.url, doc |-> None,
               baseuri |-> None])

\* _document_load(loader, doc, baseuri, loadingOptions) with the root options, or with
\* options derived from them for the file the document came from
DocumentLoad(in) ==
    /\ ncalls < MaxCalls
    /\ LET lo == IF in.fileuri = None THEN RootOptions
                 ELSE LoadingOptions(RootOptions, in.fileuri, None, None, nalloc)
           s == IF in.fileuri = None THEN State ELSE [State EXCEPT !.nalloc = @ + 1]
       IN  Commit(CallDocumentLoad(in.loader, in.doc, in.baseuri, lo, s, MaxDepth),
                  [kind |-> "docload", loader |-> in.loader,
                   url |-> IF IsStr(in.doc) THEN urljoin(in.baseuri, AsURL(in.doc)) ELSE None,
                   doc |-> in.doc, baseuri |-> in.baseuri])

\* Mappings handed to fromDoc, and the docRoot they are handed with
FromDocDocs ==
    { CommentedMap(<<>>), ValidRec,
      CommentedMap(<<Ent("x", PyInt(1))>>),
      CommentedMap(<<Ent("x", None)>>),
      CommentedMap(<<Ent("ref", None), Ent("x", None)>>),
      CommentedMap(<<Ent("id", None), Ent("x", None)>>),
      CommentedMap(<<Ent("ref", PyStr("http://x/missing")), Ent("x", None)>>),
      CommentedMap(<<Ent("x", None), Ent("y", PyInt(1)), Ent("p:z", PyInt(2))>>),
      CommentedMap(<<Ent("p:z", PyInt(2)), Ent("", PyInt(3))>>) }
FromDocRoots == {None, U("http://x/doc", "")}

\* cls.fromDoc(doc, baseuri, loadingOptions, docRoot) of a generated class
FromDoc(cls, doc, docRoot, namespaces) ==
    /\ ncalls = 0
    /\ LET lo == IF namespaces = None THEN RootOptions
                 ELSE LoadingOptions(RootOptions, None, None, namespaces, nalloc)
           s == [State EXCEPT !.vocabs = LoadingOptions_vocab(@, namespaces, nalloc),
                              !.nalloc = @ + 1, !.arg = doc]
           R == CallFromDoc(cls, doc, U("http://x/doc", "a/b"), lo, docRoot, s, MaxDepth)
       IN  /\ idx' = R.s.idx
           /\ nalloc' = R.s.nalloc
           /\ vocabs' = R.s.vocabs
           /\ imports' = R.s.imports
           /\ includes' = R.s.includes
           /\ fetched' = R.s.fetched
           /\ trace' = R.s.trace
           /\ cache' = R.s.cache
           /\ line_numbers' = R.s.line_numbers
           /\ last' = [kind |-> "fromDoc", cls |-> cls, doc |-> doc, docRoot |-> docRoot,
                       loader |-> _RecordLoader(cls.name), url |-> None,
                       baseuri |-> U("http://x/doc", "a/b"), r |-> R.r, arg |-> R.s.arg,
                       s0 |-> State]
    /\ ncalls' = ncalls + 1
    /\ prev' = last

\* save_relative_uri(uri, base_url, scoped_id, ref_scope, relative_uris) of the URI that the
\* expand_url call before resolved, with the base and the scoping of that call
SaveRelativeUri(relative_uris) ==
    /\ ncalls = 1
    /\ last.kind = "expand_url" /\ ~last.vocab_term /\ last.r.tag = "ok"
    /\ last' = [kind |-> "save_relative_uri", uri |-> last.r.val, base_url |-> last.base_url,
                lo |-> last.lo, scoped_id |-> last.scoped_id, ref_scope |-> last.scoped_ref,
                relative_uris |-> relative_uris,
                r |-> save_relative_uri(last.r.val, last.base_url, last.scoped_id,
                                        last.scoped_ref, relative_uris),
                s0 |-> State]
    /\ ncalls' = ncalls + 1
    /\ prev' = last
    /\ UNCHANGED <<idx, imports, includes, fetched, line_numbers, trace, cache, vocabs, nalloc>>

Next ==
    \/ \E in \in ByUrlInputs : DocumentLoadByUrl(in)
    \/ \E in \in DocLoadInputs : DocumentLoad(in)
    \/ FromDoc(Opt, CommentedMap(<<>>), U("b", ""), None)

Spec == Init /\ [][Next]_vars

(***************************************************************************)
(* The loaders on their own: one call t.load(doc, baseuri, loadingOptions) *)
(* of a loader of the schema on a parsed document.                         *)
(***************************************************************************)
\* Number of alternatives of the unions the calls are made with.
MaxAlts == 2

None_type == _PrimitiveLoader("NoneType")
FooLoader == _EnumLoader(<<"a", "b">>, "Foo")
BarLoader == _EnumLoader(<<"b", "c">>, "Bar")
RecLoader == _RecordLoader("Rec")
array_of_FooLoader == _ArrayLoader(FooLoader)

BaseLoaders == { inttype, strtype, None_type, Any_type, FooLoader, BarLoader, RecLoader,
                 array_of_inttype, array_of_Any_type, array_of_FooLoader }

RECURSIVE Tuples(_, _)
\* The sequences of n elements of S
Tuples(S, n) ==
    IF n = 0 THEN {<<>>} ELSE { Append(q, x) : q \in Tuples(S, n - 1), x \in S }

UnionLoaders == { _UnionLoader(a) : a \in UNION { Tuples(BaseLoaders, n) : n \in 2..MaxAlts } }

IdX == CommentedMap(<<Ent("id", PyStr("x"))>>)

LoaderDocs ==
    { None, PyInt(1), PyBool(TRUE), PyStr("a"), PyStr("z"),
      PyList(<<>>),
      PyList(<<PyInt(1), PyList(<<PyInt(2), PyInt(3)>>)>>),
      PyList(<<PyList(<<PyInt(1)>>), PyStr("a"), PyList(<<PyList(<<PyInt(2)>>)>>)>>),
      PyList(<<PyStr("z"), PyInt(1), None>>),
      PyList(<<PyInt(1), PyStr("z"), PyList(<<PyStr("y"), PyInt(2)>>)>>),
      PyList(<<IdX, IdX, None>>),
      PyList(<<IdX, PyDict(<<Ent("id", PyStr("x"))>>), IdX>>),
      CommentedMap(<<>>),
      CommentedMap(<<Ent("x", PyInt(1))>>),
      IdX,
      CommentedMap(<<Ent("id", PyInt(3))>>),
      CommentedMap(<<Ent("class", PyStr("Foo"))>>),
      CommentedMap(<<Ent("id", PyStr("x")), Ent("class", PyStr("Bar"))>>),
      CommentedMap(<<Ent("class", PyStr("Nope"))>>),
      CommentedMap(<<Ent("class", PyStr("Fo"))>>),
      CommentedMap(<<Ent("class", PyInt(3))>>),
      PyDict(<<Ent("x", PyInt(1))>>) }

\* t.load(doc, baseuri, loadingOptions) with the root options
LoaderLoad(t, doc) ==
    /\ ncalls = 0
    /\ Commit(CallLoad(t, doc, U("file", ""), RootOptions, None, None, State, MaxDepth),
              [kind |-> "load", loader |-> t, url |-> None, doc |-> doc,
               baseuri |-> U("file", "")])

NextLoader == \E t \in BaseLoaders \cup UnionLoaders, doc \in LoaderDocs : LoaderLoad(t, doc)

SpecLoader == Init /\ [][NextLoader]_vars

(***************************************************************************)
(* The URL resolver and the DSL loaders on their own: one call of          *)
(* expand_url, or one call t.load(doc, baseuri, loadingOptions).           *)
(***************************************************************************)
\* Largest scoped_ref the calls are made with.
MaxScopedRef == 3

\* $namespaces of the document the options of the calls were made for
DslNamespaces ==
    CommentedMap(<<Ent("p", PyStr("http://p/")), Ent("u", PyStr("urn:u:")),
                   Ent("t", PyStr("http://x/doc#a/c"))>>)

ExpandUrlInputs ==
    { [url |-> u, base_url |-> b, scoped_id |-> si, vocab_term |-> vt, scoped_ref |-> sr,
       namespaces |-> ns] :
        u \in {"c", "c/d", "c#f", "#f", "@id", "Any", "p:c", "u:c", "v:c", "http://y/z",
               "$(x)", ""},
        b \in {"http://x/doc#a/b", "http://x/doc", "http://x/dir/doc?k=v#a", "doc#a/b/c",
               "file:///d#a", ""},
        si \in BOOLEAN, vt \in BOOLEAN,
        sr \in {None} \cup { PyInt(n) : n \in 0..MaxScopedRef },
        ns \in {None, DslNamespaces} }

\* expand_url(url, base_url, loadingOptions, scoped_id, vocab_term, scoped_ref), with the
\* root options or with options made for a document with $namespaces
ExpandUrl(in) ==
    /\ ncalls = 0
    /\ LET lo == IF in.namespaces = None THEN RootOptions
                 ELSE LoadingOptions(RootOptions, None, None, in.namespaces, nalloc)
           vs == LoadingOptions_vocab(vocabs, in.namespaces, nalloc)
       IN  /\ vocabs' = vs
           /\ nalloc' = nalloc + 1
           /\ last' = [kind |-> "expand_url", url |-> in.url, base_url |-> in.base_url,
                       lo |-> lo, scoped_id |-> in.scoped_id, vocab_term |-> in.vocab_term,
                       scoped_ref |-> in.scoped_ref,
                       r |-> expand_url(in.url, in.base_url, lo, in.scoped_id, in.vocab_term,
                                        in.scoped_ref, vs),
                       s0 |-> State]
    /\ ncalls' = ncalls + 1
    /\ prev' = last
    /\ UNCHANGED <<idx, imports, includes, fetched, line_numbers, trace, cache>>

floattype == _PrimitiveLoader("float")
booltype == _PrimitiveLoader("bool")
uri_strtype_False_False_None == _URILoader(strtype, FALSE, FALSE, None)
uri_strtype_True_False_None == _URILoader(strtype, TRUE, FALSE, None)
uri_Any_type_False_True_1 == _URILoader(Any_type, FALSE, TRUE, PyInt(1))
array_of_uri == _ArrayLoader(uri_strtype_False_False_None)
typedsl_Any_type_2 == _TypeDSLLoader(Any_type, PyInt(2))
idmap_Any_type == _IdMapLoader(Any_type, "id", PyStr("value"))
idmap_Any_type_no_predicate == _IdMapLoader(Any_type, "id", None)
\* The loader the code generator emits for an id-map field: map_subject and map_predicate
\* are formatted into the constructor call between quotes
idmap_loader(inner, map_subject, map_predicate) ==
    _IdMapLoader(inner, map_subject,
                 PyStr(IF map_predicate = None THEN "None" ELSE map_predicate.s))
\* The loader emitted for a field `f` declared with mapSubject `id` and no mapPredicate
idmap_f_Any_type == idmap_loader(Any_type, "id", None)
secondaryfilesdsl_Any_type == _SecondaryDSLLoader(Any_type)

DslLoaders ==
    { inttype, strtype, floattype, booltype, None_type,
      uri_strtype_False_False_None, uri_strtype_True_False_None, uri_Any_type_False_True_1,
      array_of_uri, RecLoader, typedsl_Any_type_2, idmap_Any_type, idmap_Any_type_no_predicate,
      idmap_f_Any_type,
      secondaryfilesdsl_Any_type }

ArrayOfAny == CommentedMap(<<Ent("type", PyStr("array")), Ent("items", PyStr("Any"))>>)

DslDocs ==
    { None, PyInt(1), PyBool(TRUE), PyFloat(1), PyList(<<>>), CommentedMap(<<>>),
      PyStr("Any"), PyStr("Any[]"), PyStr("Any?"), PyStr("Any[]?"), PyStr("Any?[]"),
      PyStr("c"), PyStr("c?"), PyStr("p:c"),
      PyStr("http://x/missing"), PyStr("http://y/z"), PyStr("mailto:a"),
      PyStr("file:///d"), PyStr("file:///nf"),
      PyList(<<PyStr("Any?"), PyStr("null"), PyStr("Any")>>),
      PyList(<<PyStr("Any[]?"), PyStr("Any[]"), PyInt(1)>>),
      PyList(<<PyStr("Any[]"), ArrayOfAny>>),
      PyList(<<ArrayOfAny, PyStr("Any[]")>>),
      PyList(<<PyStr("http://x/missing"), PyStr("http://y/z"), PyInt(1),
               PyStr("http://x/missing#f")>>),
      PyList(<<PyStr("http://y/z"), PyStr("urn:u:c")>>),
      PyList(<<PyStr("c?"), PyStr("b"),
               CommentedMap(<<Ent("required", PyBool(TRUE)), Ent("pattern", PyStr("b"))>>)>>),
      PyList(<<CommentedMap(<<Ent("pattern", PyStr("b")), Ent("extra", PyInt(1))>>)>>),
      PyList(<<PyStr("b"), CommentedMap(<<Ent("required", PyBool(TRUE))>>)>>),
      CommentedMap(<<Ent("pattern", PyStr("b"))>>),
      CommentedMap(<<Ent("ref", PyStr("http://x/missing")), Ent("x", PyInt(1))>>),
      ValidRec,
      CommentedMap(<<Ent("foo", CommentedMap(<<Ent("bar", PyInt(1))>>))>>),
      CommentedMap(<<Ent("foo", PyInt(1))>>),
      CommentedMap(<<Ent("zed", PyDict(<<Ent("a", PyInt(1))>>)),
                     Ent("foo", CommentedMap(<<Ent("id", PyStr("old")), Ent("bar", PyInt(1))>>)),
                     Ent("Foo", PyList(<<PyInt(2)>>)),
                     Ent("bar", PyInt(2))>>) }

\* t.load(doc, baseuri, loadingOptions), with the root options or with options made for
\* a document with $namespaces
DSLLoad(t, doc, namespaces) ==
    /\ ncalls = 0
    /\ LET lo == IF namespaces = None THEN RootOptions
                 ELSE LoadingOptions(RootOptions, None, None, namespaces, nalloc)
           s == [State EXCEPT !.vocabs = LoadingOptions_vocab(@, namespaces, nalloc),
                              !.nalloc = @ + 1, !.arg = doc]
           R == CallLoad(t, doc, U("http://x/doc", "a/b"), lo, None, None, s, MaxDepth)
       IN  Commit(R, [kind |-> "load", loader |-> t, url |-> None, doc |-> doc,
                      baseuri |-> U("http://x/doc", "a/b")])

NextDSL ==
    \/ \E in \in ExpandUrlInputs : ExpandUrl(in)
    \/ \E relative_uris \in BOOLEAN : SaveRelativeUri(relative_uris)
    \/ \E t \in DslLoaders, doc \in DslDocs, ns \in {None, DslNamespaces} : DSLLoad(t, doc, ns)
    \/ \E doc \in FromDocDocs, docRoot \in FromDocRoots, ns \in {None, DslNamespaces} :
           FromDoc(Rec, doc, docRoot, ns)

SpecDSL == Init /\ [][NextDSL]_vars

(***************************************************************************)
(* Properties of the document loader (specification Spec).                 *)
(***************************************************************************)
\* The call loaded a URL: _document_load_by_url, or _document_load of a string
IsUrlLoad(c) == c.kind = "byurl" \/ (c.kind = "docload" /\ IsStr(c.doc))
Returned(c) == c.r.tag = "ok"
IsPrefix(a, b) == Len(a) <= Len(b) /\ SubSeq(b, 1, Len(a)) = a
\* Number of fetch_text(D) calls of the loads among fetched[from+1..to]
LoadFetches(D, from, to) ==
    Cardinality({ i \in (from + 1)..to : fetched[i] = [url |-> D, why |-> "load"] })
\* The $import directives the last call completed, in completion order
ImportEvents == SelectSeq(trace, LAMBDA e : "imported" \in DOMAIN e)

C2_LoadOnceAcrossFragments ==
    LET D == urldefrag(last.url)[1]
    IN  ( /\ IsUrlLoad(last)
          /\ D \in DOMAIN last.s0.idx
          /\ \E i \in 1..Len(last.s0.fetched) : fetched[i] = [url |-> D, why |-> "load"] )
        => /\ Returned(last)
           /\ \E k \in DOMAIN last.s0.idx : last.s0.idx[k] = last.r.val
           /\ LoadFetches(D, Len(last.s0.fetched), Len(fetched)) = 0

\* C3: when a load by URL of a fragmented URL D#f that idx did not hold has fetched D
\* and loaded it into idx, idx holds an entry under D#f and the call returns it.
C3_FragmentIndexed ==
    LET D == urldefrag(last.url)[1]
    IN  ( /\ last.kind = "byurl"
          /\ last.url.frg # ""
          /\ last.url \notin DOMAIN last.s0.idx
          /\ D \in DOMAIN idx
          /\ idx[D].pid >= last.s0.nalloc )
        => /\ last.url \in DOMAIN idx
           /\ last.r = Ok(idx[last.url])

\* C9: a successful _document_load of a mapping or a sequence requested under R leaves
\* the pair it returns in idx[R] and, for a mapping with $base = B, in idx[B] as well;
\* a failed one leaves no pair of its own in idx.
C9_Memoization ==
    (last.kind = "docload" /\ ~IsStr(last.doc)) =>
        LET R == last.baseuri
            B == IF IsMap(last.doc) /\ HasKey(last.doc, "$base")
                 THEN Get(last.doc, "$base").u ELSE R
        IN  IF Returned(last)
            THEN /\ IsMap(last.doc) \/ IsSeq(last.doc)
                 /\ B \in DOMAIN idx /\ R \in DOMAIN idx
                 /\ idx[B] = last.r.val /\ idx[R] = last.r.val
                 /\ last.r.val.pid >= last.s0.nalloc
            ELSE \A k \in DOMAIN idx :
                     ~(idx[k].lvl = MaxDepth /\ idx[k].pid >= last.s0.nalloc)

C9_Witness ==
    /\ last.kind = "docload" /\ IsMap(last.doc) /\ HasKey(last.doc, "$base")
    /\ Get(last.doc, "$base").u # last.baseuri
    /\ Returned(last)
    /\ idx[last.baseuri] = idx[Get(last.doc, "$base").u]
    /\ idx[last.baseuri].pid = last.r.val.pid

\* C10: every $import a call completed was resolved against the current file URI and
\* its URL appended to imports, in completion order; the imported typed result stands
\* in the place of the directive; imports and includes only grow at the end.
C10_ImportProvenance ==
    (last.kind # "none") =>
        /\ imports = last.s0.imports \o [i \in 1..Len(ImportEvents) |-> ImportEvents[i].imported]
        /\ IsPrefix(last.s0.includes, includes)
        /\ \A i \in 1..Len(ImportEvents) :
               ImportEvents[i].imported =
                   urljoin(ImportEvents[i].fileuri, AsURL(Get(ImportEvents[i].val, "$import")))
        /\ ( /\ Returned(last) /\ last.loader = array_of_inttype
             /\ \/ last.url = U("a", "") /\ last.url \notin DOMAIN last.s0.idx
                \/ last.doc = PyList(<<PyInt(1), ImportB>>) )
           => /\ Len(ImportEvents) = 1
              /\ LET v == ImportEvents[1].pair.val
                 IN  last.r.val.val =
                         PyList(<<PyInt(1)>> \o (IF IsSeq(v) THEN v.items ELSE <<v>>))

C10_Witness ==
    /\ last.kind = "docload" /\ last.doc = PyList(<<PyInt(1), ImportB>>)
    /\ Returned(last)
    /\ Len(last.s0.imports) = 1
    /\ imports = <<last.s0.imports[1], U("b", "")>>
    /\ last.r.val.val = PyList(<<PyInt(1), PyInt(2), PyInt(3)>>)

(***************************************************************************)
(* Properties of the loaders (specification SpecLoader).                   *)
(***************************************************************************)
IsUnionCall == last.kind = "load" /\ last.loader.t = "union"
IsArrayCall == last.kind = "load" /\ last.loader.t = "array" /\ IsSeq(last.doc)
Alts == last.loader.alternates
\* Alternative t of the union tried on the call's document by itself
Alone(t) == Load(t, last.doc, last.baseuri, RootOptions, None, None, last.s0, MaxDepth).r
AltErr(j) == Alone(Alts[j]).exc
Indices(n) == [i \in 1..n |-> i]
\* Element i of the array call's document loaded by itself, as the loop loads it
ElemR(i) ==
    load_field(last.doc.items[i], _UnionLoader(<<last.loader, last.loader.items>>),
               last.baseuri, RootOptions, None, last.s0, MaxDepth).r
RECURSIVE Desc(_)
\* Every cause below exception e
Desc(e) == UNION { {e.children[i]} \cup Desc(e.children[i]) : i \in 1..Len(e.children) }

\* C4: a union returns the result of the first alternative, in declared order, that
\* accepts the document, and invokes no alternative declared after it.
C4_FirstMatch ==
    IsUnionCall =>
        \A j \in 1..Len(Alts) :
            (Alone(Alts[j]).tag = "ok" /\ \A i \in 1..(j - 1) : Alone(Alts[i]).tag = "VE")
            => /\ last.r = Alone(Alts[j])
               /\ \A m \in (j + 1)..Len(Alts) :
                      (\A i \in 1..j : Alts[i] # Alts[m])
                      => \A n \in 1..Len(trace) : trace[n] # [t |-> Alts[m], doc |-> last.doc]

RECURSIVE Spliced(_)
\* The results of elements 1..i, each sequence result spliced in
Spliced(i) ==
    IF i = 0 THEN <<>>
    ELSE Spliced(i - 1) \o (IF IsSeq(ElemR(i).val) THEN ElemR(i).val.items ELSE <<ElemR(i).val>>)

\* C5: an array load that returns yields, in element order, the results of its elements
\* loaded as Union(Array(item), item), every sequence result spliced in place;
\* [1, [2, 3]] against Array(int) yields [1, 2, 3].
C5_ArraySplice ==
    /\ (IsArrayCall /\ Returned(last)) =>
           /\ \A i \in 1..Len(last.doc.items) : ElemR(i).tag = "ok"
           /\ last.r.val = PyList(Spliced(Len(last.doc.items)))
    /\ ( /\ last.kind = "load" /\ last.loader = array_of_inttype
         /\ last.doc = PyList(<<PyInt(1), PyList(<<PyInt(2), PyInt(3)>>)>>) )
       => last.r = Ok(PyList(<<PyInt(1), PyInt(2), PyInt(3)>>))

C5_Witness ==
    /\ last.kind = "load" /\ last.loader = array_of_inttype
    /\ last.doc = PyList(<<PyInt(1), PyList(<<PyInt(2), PyInt(3)>>)>>)
    /\ Returned(last) /\ Len(last.r.val.items) = 3

\* Element i loaded and repeats the non-null id of an earlier loaded CommentedMap element
DupId(i) ==
    LET x == last.doc.items[i]
    IN  /\ IsMap(x) /\ x.cm /\ Get(x, "id") # None /\ ElemR(i).tag = "ok"
        /\ \E j \in 1..(i - 1) :
               LET y == last.doc.items[j]
               IN  IsMap(y) /\ y.cm /\ Get(y, "id") = Get(x, "id") /\ ElemR(j).tag = "ok"
ElemError(i) == with_sourceline(ElemR(i).exc, SourceLine(last.doc, KeyI(i - 1)))
DupError(i) ==
    ValidationException(<<"Duplicate field">> \o StrPieces(Get(last.doc.items[i], "id")),
                        SourceLine(last.doc.items[i], KeyS("id")), <<>>)
NoElemCrash == \A i \in 1..Len(last.doc.items) : ElemR(i).tag # "crash"
Attempted(i) ==
    \E n \in 1..Len(trace) :
        trace[n] = [t |-> _UnionLoader(<<last.loader, last.loader.items>>),
                    doc |-> last.doc.items[i]]

Kept(t) ==
    IF ~IsMap(last.doc) THEN TRUE
    ELSE IF HasKey(last.doc, "class")
    THEN IsStr(Get(last.doc, "class")) /\ StrPieces(Get(last.doc, "class")) = Repr(t)
    ELSE ~InStr("array", Repr(t)) /\ (HasKey(last.doc, "id") \/ t.t # "prim")
KeptAlts == SelectSeq(Indices(Len(Alts)), LAMBDA j : Kept(Alts[j]))

MappingRejected == IsUnionCall /\ last.r.tag = "VE" /\ IsMap(last.doc)
\* The alternatives whose tag is the document's `class` value
ClassMatches ==
    { j \in 1..Len(Alts) :
        /\ HasKey(last.doc, "class") /\ IsStr(Get(last.doc, "class"))
        /\ StrPieces(Get(last.doc, "class")) = Repr(Alts[j]) }
\* The exception has exactly one child, which wraps the matching alternative's error
OnlyTheMatch ==
    /\ Len(last.r.exc.children) = 1
    /\ \A j \in ClassMatches : last.r.exc.children[1].children = <<AltErr(j)>>
\* The child names the document's id
NamesId(c) ==
    \E n \in 1..Len(c.msg) : <<c.msg[n]>> = StrPieces(Get(last.doc, "id"))
\* The children are one per alternative listed in alts, in that order, each wrapping its
\* alternative's error and naming the document's id when it has one
OnePerAlternative(alts) ==
    /\ Len(last.r.exc.children) = Len(alts)
    /\ \A i \in 1..Len(alts) :
           /\ last.r.exc.children[i].children = <<AltErr(alts[i])>>
           /\ HasKey(last.doc, "id") => NamesId(last.r.exc.children[i])

NewFetches == (Len(last.s0.fetched) + 1)..Len(fetched)
\* The last call attempted to fetch a document the fetcher cannot serve
FetchFailed == \E k \in NewFetches : fetched[k].url.doc \in Unreachable
Count(q, x) == Cardinality({ k \in 1..Len(q) : q[k] = x })

\* C11: when fetch_text fails for a URL U during a load, U was fetched exactly once in that
\* load, the top-level call ends with the fetch failure and returns no value (no enclosing
\* union or array turns it into a validation error), and neither idx nor imports nor
\* includes gains an entry for U.
C11_FetchFailureFatal ==
    (last.kind # "none" /\ FetchFailed) =>
        /\ last.r = FetchFailure
        /\ \A k \in NewFetches :
              fetched[k].url.doc \in Unreachable =>
                  LET u == fetched[k].url
                  IN  /\ \A k2 \in NewFetches : fetched[k2].url = u => k2 = k
                      /\ k = Len(fetched)
                      /\ u \in DOMAIN idx => u \in DOMAIN last.s0.idx
                      /\ Count(imports, u) = Count(last.s0.imports, u)
                      /\ Count(includes, u) = Count(last.s0.includes, u)

\* A load of `um` fails in the fetch of the $import of `m`, under a union inside an array
C11_Witness ==
    /\ last.kind = "byurl" /\ last.url = U("um", "") /\ last.loader = array_of_inttype
    /\ last.r = FetchFailure
    /\ fetched[Len(fetched)] = [url |-> U("m", ""), why |-> "load"]
    /\ \E k \in 1..Len(trace) : "t" \in DOMAIN trace[k] /\ trace[k].t.t = "union"


(***************************************************************************)
(* Vocabularies (specification Spec).                                      *)
(***************************************************************************)
Keys(m) == { m.ents[i].key : i \in 1..Len(m.ents) }
\* The options objects that were constructed with namespaces
Namespaced == DOMAIN vocabs \ {0}

\* C12: an options object constructed with namespaces adds them to copies of vocab and
\* rvocab: the module-level dictionaries and the dictionaries of every options object
\* that existed before the call are unchanged, and a prefix one document declares in its
\* $namespaces is in no other document's vocab.
C12_VocabularyIsolation ==
    /\ vocabs[0].vocab = _vocab /\ vocabs[0].rvocab = _rvocab
    /\ last.kind # "none" =>
          \A o \in DOMAIN last.s0.vocabs : vocabs[o] = last.s0.vocabs[o]
    /\ \A o \in Namespaced :
          /\ DOMAIN vocabs[o].vocab = DOMAIN _vocab \cup Keys(vocabs[o].ns)
          /\ \A o2 \in Namespaced \ {o} :
                \A k \in Keys(vocabs[o2].ns) \ (Keys(vocabs[o].ns) \cup DOMAIN _vocab) :
                    k \notin DOMAIN vocabs[o].vocab

\* One load imported `p` and `q`, which declare different prefixes, `q` redefining a
\* term of the module's vocabulary in its own copy
C12_Witness ==
    /\ last.kind = "byurl" /\ last.url = U("pq", "")
    /\ \E o, o2 \in Namespaced :
          /\ "p" \in DOMAIN vocabs[o].vocab /\ "q" \notin DOMAIN vocabs[o].vocab
          /\ "q" \in DOMAIN vocabs[o2].vocab /\ vocabs[o2].vocab["Any"] = "http://q/Any"
          /\ vocabs[o2].rvocab["http://q/"] = "q"


(***************************************************************************)
(* The URL resolver (specification SpecDSL).                               *)
(***************************************************************************)
IsExpandUrl == last.kind = "expand_url"
\* The url after the prefix substitution of lines 348-351
Substituted ==
    LET V == Vocab(last.lo, vocabs)
        prefix == Before(last.url, ":")
    IN  IF Contains(last.url, ":") /\ prefix \in DOMAIN V
        THEN V[prefix] \o From(last.url, Len(prefix) + 1) ELSE last.url
\* The call reached the scoped_ref rule: no earlier rule handled the url
ScopedRefRule ==
    /\ IsExpandUrl
    /\ last.url \notin {"@id", "@type"}
    /\ ~(last.vocab_term /\ last.url \in DOMAIN Vocab(last.lo, vocabs))
    /\ ~(urlsplit(Substituted).scheme \in supported_schemes)
    /\ ~startswith(Substituted, "$(") /\ ~startswith(Substituted, "${")
    /\ ~last.scoped_id
    /\ last.scoped_ref # None
    /\ ~Contains(Substituted, "#")
\* The '/'-separated segments of the base's fragment without the last n of them
RECURSIVE Segments(_)
Segments(f) ==
    IF Contains(f, "/") THEN <<Before(f, "/")>> \o Segments(After(f, "/")) ELSE <<f>>
DropLast(q, n) == [i \in 1..(IF Len(q) > n THEN Len(q) - n ELSE 0) |-> q[i]]
\* The result is the base with the last n fragment segments replaced by url
IsScopedRefOf(result, base_url, n, url) ==
    LET b == urlsplit(base_url)
        r == urlsplit(result)
    IN  /\ r.scheme = b.scheme /\ r.netloc = b.netloc /\ r.path = b.path /\ r.query = b.query
        /\ Before(result, "#") = Before(base_url, "#")
        /\ Segments(After(result, "#")) =
              DropLast(Segments(b.fragment), n) \o Segments(url)

\* C13 as stated: with scoped_ref = n, a url without fragment that no earlier rule handles
\* resolves to the base URI with the last n segments of its fragment removed and url
\* appended, scheme, host, path and query kept.
C13_ScopedRef ==
    ScopedRefRule =>
        /\ last.r.tag = "ok"
        /\ IsScopedRefOf(last.r.val, last.base_url, last.scoped_ref.n, Substituted)

\* C13 amended: the same, for calls without vocab_term; with vocab_term it holds of the
\* returned URL unless that URL is contracted to its rvocab term or has no scheme.
C13_ScopedRefResolved ==
    /\ (ScopedRefRule /\ ~last.vocab_term) =>
          /\ last.r.tag = "ok"
          /\ IsScopedRefOf(last.r.val, last.base_url, last.scoped_ref.n, Substituted)
    /\ (ScopedRefRule /\ last.vocab_term) =>
          \/ /\ last.r.tag = "ok"
             /\ IsScopedRefOf(last.r.val, last.base_url, last.scoped_ref.n, Substituted)
             /\ urlsplit(last.r.val).scheme # ""
          \/ /\ last.r.tag = "ok"
             /\ \E k \in DOMAIN RVocab(last.lo, vocabs) :
                  /\ RVocab(last.lo, vocabs)[k] = last.r.val
                  /\ IsScopedRefOf(k, last.base_url, last.scoped_ref.n, Substituted)
          \/ /\ last.r.tag = "VE"
             /\ urlsplit(last.base_url).scheme = ""
    /\ (IsExpandUrl /\ last.url = "c" /\ last.base_url = "http://x/doc#a/b"
          /\ last.scoped_ref = PyInt(1) /\ ~last.scoped_id /\ ~last.vocab_term) =>
          last.r = Ok("http://x/doc#a/c")

\* The example of the specification, and a call that pops more segments than there are
C13_Witness ==
    /\ ScopedRefRule /\ ~last.vocab_term
    /\ last.url = "c" /\ last.base_url = "http://x/doc#a/b" /\ last.scoped_ref = PyInt(1)
    /\ last.r = Ok("http://x/doc#a/c")


\* C14: expand_url with vocab_term, for a url other than @id and @type, returns a
\* vocabulary term (the url itself when it is a key of vocab, or the rvocab term of the
\* resolved URL), or returns a URL that has a scheme, or raises the not-in-vocabulary
\* ValidationException for a resolved URL without scheme; it never returns a string
\* without scheme that is no vocabulary term.
C14_VocabTermResult ==
    (IsExpandUrl /\ last.vocab_term /\ last.url \notin {"@id", "@type"}) =>
        LET V == Vocab(last.lo, vocabs)
            RV == RVocab(last.lo, vocabs)
        IN  /\ last.r.tag \in {"ok", "VE"}
            /\ last.r.tag = "ok" =>
                  \/ last.r.val = last.url /\ last.url \in DOMAIN V
                  \/ \E k \in DOMAIN RV : RV[k] = last.r.val /\ last.r.val \in DOMAIN V
                                          /\ urlsplit(k).scheme # ""
                  \/ urlsplit(last.r.val).scheme # ""
            /\ last.r.tag = "VE" =>
                  /\ Len(last.r.exc.msg) = 3
                  /\ last.r.exc.msg[1] = "Term" /\ last.r.exc.msg[3] = "not in vocabulary"
                  /\ urlsplit(last.r.exc.msg[2]).scheme = ""
                  /\ last.url \notin DOMAIN V
            /\ last.url \in DOMAIN V => last.r = Ok(last.url)

\* A relative url resolved against a base without scheme is rejected as not in vocabulary
C14_Witness ==
    /\ IsExpandUrl /\ last.vocab_term /\ last.url = "c/d" /\ last.base_url = "doc#a/b/c"
    /\ last.scoped_ref = None /\ ~last.scoped_id
    /\ last.r.tag = "VE" /\ last.r.exc.msg = <<"Term", "c/d", "not in vocabulary">>


(***************************************************************************)
(* The DSL loaders (specification SpecDSL).                                *)
(***************************************************************************)
IsLoadOf(kind) == last.kind = "load" /\ last.loader.t = kind
\* The document the loader handed its inner loader
Handed == trace[2].doc
WasHanded == Len(trace) >= 2 /\ trace[2].t = last.loader.inner
\* The options the call was made with
CallOptions ==
    IF Namespaced = {} THEN RootOptions
    ELSE LoadingOptions(RootOptions, None, None, DslNamespaces, CHOOSE o \in Namespaced : TRUE)
ArrayOf(T) == PyDict(<<Ent("type", PyStr("array")), Ent("items", PyStr(T))>>)
\* The entries the string items of a list expand to
Expanded(items) ==
    UNION { LET e == _TypeDSLLoader_resolve(last.loader, Text(items[i]), UrlText(last.baseuri),
                                            CallOptions, vocabs)
            IN  IF e.tag # "ok" THEN {}
                ELSE IF IsSeq(e.val) THEN { e.val.items[j] : j \in 1..Len(e.val.items) }
                ELSE {e.val}
            : i \in { i \in 1..Len(items) : IsStr(items[i]) } }

\* C15: for the vocabulary term T, _TypeDSLLoader hands its inner loader T for "T",
\* {type: array, items: T} for "T[]", ["null", T] for "T?" and
\* ["null", {type: array, items: T}] for "T[]?"; for a list it hands one flat list in which
\* no entry that a string item expanded to occurs twice.
C15_TypeDSL ==
    IsLoadOf("typedsl") =>
        /\ last.doc = PyStr("Any") => WasHanded /\ Handed = PyStr("Any")
        /\ last.doc = PyStr("Any[]") => WasHanded /\ Handed = ArrayOf("Any")
        /\ last.doc = PyStr("Any?") =>
              WasHanded /\ Handed = PyList(<<PyStr("null"), PyStr("Any")>>)
        /\ last.doc = PyStr("Any[]?") =>
              WasHanded /\ Handed = PyList(<<PyStr("null"), ArrayOf("Any")>>)
        /\ (IsSeq(last.doc) /\ WasHanded) =>
              /\ IsSeq(Handed)
              /\ \A j \in 1..Len(Handed.items) : ~IsSeq(Handed.items[j])
              /\ \A x \in Expanded(last.doc.items) :
                    Cardinality({ j \in 1..Len(Handed.items) : PyEq(Handed.items[j], x) }) = 1


MapKeys(m) == { m.ents[i].key : i \in 1..Len(m.ents) }
\* v is the mapping `of` with the key `key` set to the str `to` and nothing else changed
IsWithKey(v, of, key, to) ==
    /\ IsMap(v) /\ MapKeys(v) = MapKeys(of) \cup {key}
    /\ Get(v, key) = PyStr(to)
    /\ \A k \in MapKeys(of) \ {key} : Get(v, k) = Get(of, k)

\* C16: _IdMapLoader hands its inner loader, for a mapping, a sequence with one entry per
\* outer key in ascending key order whatever the order in the document; the entry of a
\* mapping value is that mapping with subjectKey set to the outer key, the entry of any
\* other value is {predicateKey: value} with subjectKey set to the outer key; the input
\* mapping and the mappings in it are as they were.
C16_IdMap ==
    (IsLoadOf("idmap") /\ IsMap(last.doc) /\ last.loader.mapPredicate # None) =>
        LET subject == last.loader.mapSubject
            predicate == last.loader.mapPredicate.s
            n == Len(Handed.items)
        IN  /\ WasHanded /\ IsSeq(Handed)
            /\ n = Cardinality(MapKeys(last.doc))
            /\ \A j \in 1..n : IsMap(Handed.items[j]) /\ IsStr(Get(Handed.items[j], subject))
            /\ { Get(Handed.items[j], subject).s : j \in 1..n } = MapKeys(last.doc)
            /\ \A j \in 1..(n - 1) :
                  StrLess(Get(Handed.items[j], subject).s, Get(Handed.items[j + 1], subject).s)
            /\ \A j \in 1..n :
                  LET k == Get(Handed.items[j], subject).s
                      val == Get(last.doc, k)
                  IN  IF IsMap(val) THEN IsWithKey(Handed.items[j], val, subject, k)
                      ELSE IsWithKey(Handed.items[j], PyDict(<<Ent(predicate, val)>>), subject, k)
            /\ last.arg = last.doc
            /\ last.doc = CommentedMap(<<Ent("foo", CommentedMap(<<Ent("bar", PyInt(1))>>))>>) =>
                  Handed = PyList(<<CommentedMap(<<Ent("bar", PyInt(1)),
                                                   Ent("id", PyStr("foo"))>>)>>)
            /\ (predicate = "value" /\ last.doc = CommentedMap(<<Ent("foo", PyInt(1))>>)) =>
                  Handed = PyList(<<PyDict(<<Ent("value", PyInt(1)), Ent("id", PyStr("foo"))>>)>>)

\* A mapping whose keys are out of order, with mapping and scalar values, one of the
\* mappings holding the subject key already
C16_Witness ==
    /\ IsLoadOf("idmap") /\ last.loader.mapPredicate = PyStr("value")
    /\ IsMap(last.doc) /\ Len(last.doc.ents) = 4 /\ last.doc.ents[1].key = "zed"
    /\ WasHanded /\ Len(Handed.items) = 4
    /\ [j \in 1..4 |-> Get(Handed.items[j], "id")] =
          <<PyStr("Foo"), PyStr("bar"), PyStr("foo"), PyStr("zed")>>
    /\ Handed.items[3] = CommentedMap(<<Ent("id", PyStr("foo")), Ent("bar", PyInt(1))>>)
    /\ Handed.items[1] = PyDict(<<Ent("value", PyList(<<PyInt(2)>>)), Ent("id", PyStr("Foo"))>>)
    /\ last.r = Ok(Handed)


\* The entry is rejected: a mapping without `pattern`, or with a key other than pattern
\* and required, or no str and no mapping at all
BadEntry(d) ==
    IF IsMap(d) THEN ~HasKey(d, "pattern") \/ MapKeys(d) \ {"pattern", "required"} # {}
    ELSE ~IsStr(d)
\* The items of the document taken as a list of entries
EntriesOf(doc) == IF IsSeq(doc) THEN doc.items ELSE <<doc>>

\* C17: for a string, a mapping or a sequence of them, _SecondaryDSLLoader.load raises
\* ValidationException when an entry has no `pattern` or has a key other than pattern and
\* required; otherwise it hands its inner loader one entry per item, each with `pattern`
\* and with `required` set to a value or null (false for a string ending in ?, whose
\* pattern is the string without the ?), and returns what the inner loader returns.
C17_SecondaryDSL ==
    (IsLoadOf("secondarydsl") /\ (IsStr(last.doc) \/ IsMap(last.doc) \/ IsSeq(last.doc))) =>
        LET items == EntriesOf(last.doc)
        IN  IF \E i \in 1..Len(items) : BadEntry(items[i])
            THEN last.r.tag = "VE"
            ELSE /\ WasHanded /\ IsSeq(Handed) /\ Len(Handed.items) = Len(items)
                 /\ \A i \in 1..Len(items) :
                      LET e == Handed.items[i]
                      IN  /\ MapKeys(e) = {"pattern", "required"}
                          /\ IsStr(items[i]) /\ endswith(Text(items[i]), "?") =>
                                /\ Get(e, "required") = PyBool(FALSE)
                                /\ Text(Get(e, "pattern")) \o "?" = Text(items[i])
                          /\ IsMap(items[i]) =>
                                /\ Get(e, "pattern") = Get(items[i], "pattern")
                                /\ Get(e, "required") = Get(items[i], "required")
                 /\ last.r = Ok(Handed)


\* The kind of document a primitive loader is declared for
KindOf(tp) == IF tp = "NoneType" THEN "null" ELSE tp

\* C18: _PrimitiveLoader(kind).load returns the document unchanged when the document's kind
\* is exactly kind, and raises ValidationException for a document of any other kind; the int
\* loader does not accept a boolean.
C18_ExactKind ==
    IsLoadOf("prim") =>
        IF last.doc.k = KindOf(last.loader.tp) THEN last.r = Ok(last.doc)
        ELSE last.r.tag = "VE"


\* The existence check of url fails: the fetcher cannot fetch it, or no such file
Dangling(url) ==
    LET sp == urlsplit(url)
    IN  \/ sp.scheme \in {"http", "https"} /\ Before(url, "#") \in Unreachable
        \/ sp.scheme = "file" /\ sp.path \notin Files
\* The existence check of url cannot be made
Uncheckable(url) == urlsplit(url).scheme \notin {"http", "https", "file", "mailto"}
DanglingError(url) ==
    ValidationException(<<"contains undefined reference to", url>>, None, <<>>)
\* The str the URI loader t resolves the str document d to
Resolved(t, d) ==
    expand_url(Text(d), UrlText(last.baseuri), CallOptions, t.scoped_id, t.vocab_term,
               t.scoped_ref, vocabs)
\* The record's field `ref` holds a reference, loaded by a URI loader, that dangles
HasDanglingField(doc) ==
    IsMap(doc) /\ HasKey(doc, "ref") /\ IsStr(Get(doc, "ref")) /\ Dangling(Text(Get(doc, "ref")))

\* C19: a string that _URILoader resolved and that fails the existence check becomes a
\* dangling-reference cause in the error of the enclosing array or record, next to the
\* errors of the other elements or fields, which are all still loaded; a reference whose
\* scheme cannot be checked gives no error and goes to the inner loader.
C19_DanglingCollected ==
    /\ (IsArrayCall /\ last.loader.items.t = "uri") =>
          LET n == Len(last.doc.items)
              uri == last.loader.items
              bad == { i \in 1..n : \/ ~IsStr(last.doc.items[i])
                                    \/ Resolved(uri, last.doc.items[i]).tag # "ok"
                                    \/ Dangling(Resolved(uri, last.doc.items[i]).val) }
          IN  /\ \A i \in 1..n : Attempted(i)
              /\ bad = {} => last.r.tag = "ok"
              /\ bad # {} =>
                    /\ last.r.tag = "VE"
                    /\ Len(last.r.exc.children) = Cardinality(bad)
                    /\ \A i \in bad :
                          \E c \in 1..Len(last.r.exc.children) :
                              /\ last.r.exc.children[c].sl = SourceLine(last.doc, KeyI(i - 1))
                              /\ (IsStr(last.doc.items[i])
                                  /\ Resolved(uri, last.doc.items[i]).tag = "ok") =>
                                    DanglingError(Resolved(uri, last.doc.items[i]).val)
                                        \in Desc(last.r.exc.children[c])
    /\ (IsLoadOf("uri") /\ IsStr(last.doc) /\ Resolved(last.loader, last.doc).tag = "ok"
          /\ Uncheckable(Resolved(last.loader, last.doc).val)) =>
          /\ WasHanded /\ Handed = PyStr(Resolved(last.loader, last.doc).val)
          /\ last.r = Ok(Handed)
    /\ (IsLoadOf("record") /\ HasDanglingField(last.doc)) =>
          /\ last.r.tag = "VE"
          /\ DanglingError(Text(Get(last.doc, "ref"))) \in Desc(last.r.exc)

(***************************************************************************)
(* Cyclic imports                                                          *)
(***************************************************************************)
\* The documents whose $import chain leads back to a document that is still being loaded
CyclicDocs == {"cyc", "ca", "cb"}

\* C20: a load-by-URL of a document whose $import chain leads back to a document that is
\* still being loaded terminates without exhausting the interpreter's stack, and the memo
\* entry keeps every URL of the cycle from being fetched more than once in that load.
C20_CyclicImportTerminates ==
    (last.kind = "byurl" /\ last.url.doc \in CyclicDocs /\ last.url \notin DOMAIN last.s0.idx) =>
        /\ last.r.tag \in {"ok", "VE"}
        /\ \A k1, k2 \in NewFetches : fetched[k1].url = fetched[k2].url => k1 = k2

(***************************************************************************)
(* Properties of the generated classes (specification SpecDSL).            *)
(***************************************************************************)
IsFromDoc == last.kind = "fromDoc"
\* The fields of the call's mapping that fromDoc has to report as missing
MissingFields ==
    { last.cls.fields[i].name : i \in { j \in 1..Len(last.cls.fields) :
          IF HasKey(last.doc, last.cls.fields[j].name)
          THEN Get(last.doc, last.cls.fields[j].name) = None
          ELSE ~last.cls.fields[j].optional } }
\* The fields of the call's mapping whose value fromDoc hands to load_field
LoadedFields ==
    { last.cls.fields[i].name : i \in { j \in 1..Len(last.cls.fields) :
          Get(last.doc, last.cls.fields[j].name) # None } }

\* C21: a fromDoc call ends by returning the record or by raising one ValidationException
\* that holds an error for every failing field of the mapping, and the error of a field
\* whose load raised e has e among its children.
C21_FieldCausesCollected ==
    IsFromDoc =>
        /\ last.r.tag \in {"ok", "VE"}
        /\ last.r.tag = "VE" =>
              /\ \A f \in MissingFields :
                    \E c \in 1..Len(last.r.exc.children) :
                        last.r.exc.children[c].msg = <<"missing required field", f>>
              /\ \A f \in LoadedFields :
                    \A c \in 1..Len(last.r.exc.children) :
                        last.r.exc.children[c].msg = <<"the", f, "field is not valid because:">>
                            => \E g \in 1..Len(last.r.exc.children[c].children) :
                                   last.r.exc.children[c].children[g].msg[1] # "Expected one of"

(***************************************************************************)
(* Saving relative URIs                                                    *)
(***************************************************************************)
IsSave == last.kind = "save_relative_uri"
\* The saved URI has a scheme
IsAbsolute(uri) == urlsplit(uri).scheme # ""

\* C22: saving with relative_uris an absolute URI that expand_url produced from a base
\* under (scoped_id, ref_scope) returns a string that expand_url resolves against the same
\* base, under the same scoping and without vocab_term, to the URI again; without
\* relative_uris, or for the base itself, the URI is returned unchanged.
C22_RelativeUriRoundTrip ==
    (IsSave /\ IsAbsolute(last.uri)) =>
        /\ last.r.tag = "ok"
        /\ IF last.relative_uris /\ last.uri # last.base_url
           THEN expand_url(last.r.val, last.base_url, last.lo, last.scoped_id, FALSE,
                           last.ref_scope, vocabs) = Ok(last.uri)
           ELSE last.r.val = last.uri

(***************************************************************************)
(* Duplicate sibling ids (specification SpecLoader).                       *)
(***************************************************************************)
\* Element i is a mapping of any type that loaded and repeats the non-null id of an
\* earlier mapping element that loaded
DupIdOfMapping(i) ==
    /\ IsMap(last.doc.items[i]) /\ Get(last.doc.items[i], "id") # None /\ ElemR(i).tag = "ok"
    /\ \E j \in 1..(i - 1) :
           /\ IsMap(last.doc.items[j]) /\ ElemR(j).tag = "ok"
           /\ Get(last.doc.items[j], "id") = Get(last.doc.items[i], "id")

\* C23: an array load records a duplicate-identifier error for every mapping element,
\* whatever its mapping type, that repeats the non-null id of an earlier element; the error
\* is a child of the one exception raised, and the elements after it are still attempted.
C23_DuplicateIds ==
    (IsArrayCall /\ NoElemCrash) =>
        \A i \in 1..Len(last.doc.items) :
            DupIdOfMapping(i) =>
                /\ last.r.tag = "VE"
                /\ \E c \in 1..Len(last.r.exc.children) : last.r.exc.children[c] = DupError(i)
                /\ \A k \in i..Len(last.doc.items) : Attempted(k)

(***************************************************************************)
(* Namespaces and vocabulary of the options (specification Spec).          *)
(***************************************************************************)
\* Every (prefix, URI) pair of the options' namespaces is in their vocab and rvocab
NamespacesInVocab(lo) ==
    \A i \in 1..Len(lo.namespaces.ents) :
        /\ lo.namespaces.ents[i].key \in DOMAIN Vocab(lo, vocabs)
        /\ Vocab(lo, vocabs)[lo.namespaces.ents[i].key] = Text(lo.namespaces.ents[i].val)
        /\ Text(lo.namespaces.ents[i].val) \in DOMAIN RVocab(lo, vocabs)
        /\ RVocab(lo, vocabs)[Text(lo.namespaces.ents[i].val)] = lo.namespaces.ents[i].key

\* C24: the options object of every document in idx, the per-file options that
\* load-by-URL derives with copyfrom for an imported document among them, has each
\* (prefix, URI) pair of its namespaces in its vocab and its rvocab.
C24_NamespacesInVocab ==
    \A k \in DOMAIN idx : NamespacesInVocab(idx[k].lo)

(***************************************************************************)
(* The position table (specification Spec).                                *)
(***************************************************************************)
\* The tables the array and union loaders of the last call took, in call order
Consultations == SelectSeq(trace, LAMBDA e : "line_numbers" \in DOMAIN e)

\* C25: in a load-by-URL, the position table an array or union loader takes while the
\* nodes of a mapping document are loaded is the tree of that document, also after a
\* nested $import load returned to it.
C25_PositionTableIsCurrent ==
    last.kind = "byurl" =>
        \A n \in 1..Len(Consultations) :
            IsMap(Parsed(Consultations[n].fileuri.doc)) =>
                Consultations[n].line_numbers = Parsed(Consultations[n].fileuri.doc)

(***************************************************************************)
(* Imports and the memo (specification Spec).                              *)
(***************************************************************************)
\* v is a value Union(Array(int), int) produces
IsIntOrInts(v) ==
    \/ v.k = "int"
    \/ IsSeq(v) /\ \A i \in 1..Len(v.items) : v.items[i].k = "int"

\* C26: the value load_field returns for a $import field of type Union(Array(int), int)
\* is a value of that type, also when the URL was in idx from an earlier load with
\* another loader.
C26_ImportValidated ==
    \A i \in 1..Len(ImportEvents) :
        ImportEvents[i].fieldtype = _UnionLoader(<<array_of_inttype, inttype>>)
            => IsIntOrInts(ImportEvents[i].pair.val)

(***************************************************************************)
(* The calls between the runtime and the generated classes (SpecDSL).      *)
(***************************************************************************)
\* The call handed a mapping to a generated class: through _RecordLoader.load, or fromDoc
IsRecordCall == (IsLoadOf("record") /\ IsMap(last.doc)) \/ IsFromDoc

\* C27: a call that hands a mapping to a generated record class never ends in an argument
\* error, and for a mapping that is valid for the class it returns the constructed record.
C27_CallInterfacesAgree ==
    IsRecordCall =>
        /\ last.r # Crash("TypeError")
        /\ last.doc = ValidRec =>
              /\ last.r.tag = "ok"
              /\ last.r.val.k = "rec" /\ last.r.val.cls = "Rec"

(***************************************************************************)
(* The id-map loader the generator emits (SpecDSL).                        *)
(***************************************************************************)
\* Some value of the mapping is no mapping
HasBareScalar(doc) == \E i \in 1..Len(doc.ents) : ~IsMap(doc.ents[i].val)

\* C28: the id-map loader emitted for a field declared with no mapPredicate raises
\* 'No mapPredicate' for a mapping with a value that is no mapping, and hands its inner
\* loader no entry for it.
C28_NoPredicateRejectsScalars ==
    (last.kind = "load" /\ last.loader = idmap_f_Any_type /\ IsMap(last.doc)
        /\ HasBareScalar(last.doc)) =>
        /\ last.r = Raise(ValidationException(<<"No mapPredicate">>, None, <<>>))
        /\ ~WasHanded

(***************************************************************************)
(* Rejected union alternatives (specification Spec).                       *)
(***************************************************************************)
\* The union alternatives of the last call that raised a ValidationException
Rejections == SelectSeq(trace, LAMBDA e : "rejected" \in DOMAIN e)

\* C29: when a union alternative raises a ValidationException, idx, imports and includes
\* are what they were before the alternative ran.
C29_RejectedAlternativeLeavesContext ==
    \A n \in 1..Len(Rejections) :
        /\ Rejections[n].idx[1] = Rejections[n].idx[2]
        /\ Rejections[n].imports[1] = Rejections[n].imports[2]
        /\ Rejections[n].includes[1] = Rejections[n].includes[2]

(***************************************************************************)
(* What idx answers with (specification Spec).                             *)
(***************************************************************************)
\* The load-by-URL of the fragment-less URL of a document returned the pair idx held,
\* without fetching
AnsweredFromIdx ==
    /\ last.kind = "byurl" /\ Returned(last) /\ last.url.frg = ""
    /\ last.url \in DOMAIN last.s0.idx
    /\ fetched = last.s0.fetched

\* C30: the pair a load-by-URL returns from idx for the fragment-less URL D of a document
\* was stored by a completed document load of D, and by no record that registered itself.
C30_IdxAnswersForLoadedDocuments ==
    AnsweredFromIdx => last.r.val.of = last.url

====
